---- MODULE Spec2Model ----
(***************************************************************************)
(* Booking, trip and pricing engine of the P2P electric-motorbike rental   *)
(* API.  Every request handler is an async function: it runs up to its     *)
(* next store access (an `await this.prisma...`), and the handlers of      *)
(* other requests run in between.  A handler in flight is a continuation   *)
(* record in the bag `inflight`; one action is one store access together   *)
(* with the synchronous code that follows it.                              *)
(***************************************************************************)
EXTENDS Integers, Sequences, FiniteSets, Bags, TLC

\* ------------------------------------------------------------------ bounds
MaxTime == 2
MaxBookings == 2
MaxInflight == 2

\* ------------------------------------------------------------- the inputs
Users == {"u1", "u2"}
VehicleIds == {"v1"}
NoVehicle == "v0"
Times == 0 .. MaxTime
WideTimes == 0 .. MaxTime + 1
BookingIds == 1 .. MaxBookings
TripIds == 1 .. MaxBookings
Reasons == {"changed plans"}
Latitudes == {0, 10}
startLongitude == 106
Issues == {"flat tyre"}

\* One clock unit is twelve hours, so that a window of one unit is charged by
\* the hour and a window of two units by the day.
MsPerHour == 1000 * 60 * 60
MsPerUnit == 12 * MsPerHour
ToMs(t) == t * MsPerUnit

\* A nullable column is <<>> (NULL) or <<v>>.  No code of the engine reads the
\* value of a timestamp column, only whether it is set: `new Date()` is Date.
Unset == <<>>
Value(v) == <<v>>

\* A request body with none of its optional fields.
NoDto == [hasIssues |-> Unset, issueDescription |-> Unset]
Date == "Date"

\* ------------------------------------------------------- the vehicle rows
vehicleOwner == [v \in VehicleIds |-> "u1"]
pricePerHour == [v \in VehicleIds |-> 20000]
pricePerDay == [v \in VehicleIds |-> 300000]
vehicleDeposit == [v \in VehicleIds |-> 500000]

\* How a vehicle is listed: bookable, or withdrawn in one of the two ways
\* createBooking tests.
Listings ==
  {[status |-> "AVAILABLE", isAvailable |-> TRUE],
   [status |-> "MAINTENANCE", isAvailable |-> TRUE],
   [status |-> "AVAILABLE", isAvailable |-> FALSE]}

VARIABLES
  now,        \* the wall clock, in clock units
  vehicles,   \* vehicles table: id -> row
  bookings,   \* bookings table: a sequence, the id of a row is its index
  trips,      \* trips table: a sequence, the id of a row is its index
  inflight,   \* bag of the handlers suspended at a store access
  emitted,    \* the events the step just taken handed to the event emitter
  ret,        \* what the step just taken returned to its caller, if anything
  serial,     \* history: no call has started while another one was in flight
  started,    \* history: the bookings for which a startTrip call succeeded
  calc,       \* input and output of a stand-alone calculateTotalPrice run
  notifications,  \* notifications table: a sequence, the id of a row is its index
  listening,      \* bag of the event listeners and push sends suspended at an await
  sent,           \* the messages the step just taken put on a socket room or gave to FCM
  userSockets,    \* the gateway's registry: userId -> socket ids, no entry when offline
  fcmInitialized, \* NotificationService.fcmInitialized
  fcmTokens,      \* fcm_tokens table: userId -> the active tokens
  payments,       \* payments table: a sequence, the id of a row is its index
  clients         \* the sockets the gateway has seen: socket id -> connected?, client.data.userId

vars == <<now, vehicles, bookings, trips, inflight, emitted, ret, serial, started, calc,
          notifications, listening, sent, userSockets, fcmInitialized, fcmTokens,
          payments, clients>>

\* The step at hand is none of the payments service or of the gateway's
\* connection handling.
Aside == UNCHANGED <<payments, clients>>

\* The step at hand is none of the notification side.
Quiet ==
  /\ UNCHANGED <<notifications, listening, sent, userSockets, fcmInitialized, fcmTokens>>
  /\ Aside

\* --------------------------------------------------------------- pricing
CeilDiv(a, b) == (a + b - 1) \div b

calculateTotalPriceStrict(startMs, endMs, perHour, perDay) ==
  LET durationMs == endMs - startMs
  IN  IF durationMs > 24 * MsPerHour
        THEN CeilDiv(durationMs, 24 * MsPerHour) * perDay
        ELSE CeilDiv(durationMs, MsPerHour) * perHour

\* durationDays >= 1 exactly when durationMs >= 24h; Math.ceil of the quotient
\* of an integer number of milliseconds is the integer ceiling.
calculateTotalPrice(startMs, endMs, perHour, perDay) ==
  LET durationMs == endMs - startMs
  IN  IF durationMs >= 24 * MsPerHour
        THEN CeilDiv(durationMs, 24 * MsPerHour) * perDay
        ELSE CeilDiv(durationMs, MsPerHour) * perHour

\* ------------------------------------------------------- conflict queries
ActiveStatuses == {"PENDING", "CONFIRMED", "ONGOING"}
ConfirmedStatuses == {"CONFIRMED", "ONGOING"}

\* The OR of the three where-clauses both conflict queries use.
OverlapWhereTouching(row, startTime, endTime) ==
  \/ row.startTime <= startTime /\ row.endTime >= startTime
  \/ row.startTime < endTime /\ row.endTime >= endTime
  \/ row.startTime >= startTime /\ row.endTime <= endTime

\* The first of the three where-clauses alone.
OverlapWhereStartOnly(row, startTime, endTime) ==
  row.startTime <= startTime /\ row.endTime > startTime

OverlapWhere(row, startTime, endTime) ==
  \/ row.startTime <= startTime /\ row.endTime > startTime
  \/ row.startTime < endTime /\ row.endTime >= endTime
  \/ row.startTime >= startTime /\ row.endTime <= endTime

RowIds == 1 .. Len(bookings)

isVehicleAvailableNoPending(vehicleId, startTime, endTime) ==
  { i \in RowIds :
      /\ bookings[i].vehicleId = vehicleId
      /\ bookings[i].status \in ConfirmedStatuses
      /\ OverlapWhere(bookings[i], startTime, endTime) } = {}

isVehicleAvailable(vehicleId, startTime, endTime) ==
  { i \in RowIds :
      /\ bookings[i].vehicleId = vehicleId
      /\ bookings[i].status \in ActiveStatuses
      /\ OverlapWhere(bookings[i], startTime, endTime) } = {}

conflictingBookingsConfirmedOnly(bookingId) ==
  { i \in RowIds :
      /\ bookings[i].vehicleId = bookings[bookingId].vehicleId
      /\ i # bookingId
      /\ bookings[i].status = "CONFIRMED"
      /\ OverlapWhere(bookings[i], bookings[bookingId].startTime,
                      bookings[bookingId].endTime) }

conflictingBookings(bookingId) ==
  { i \in RowIds :
      /\ bookings[i].vehicleId = bookings[bookingId].vehicleId
      /\ i # bookingId
      /\ bookings[i].status \in ConfirmedStatuses
      /\ OverlapWhere(bookings[i], bookings[bookingId].startTime,
                      bookings[bookingId].endTime) }

\* ------------------------------------------------------------ the handlers
\* A suspended handler: which one, the store access it waits for, and the
\* arguments and locals it still needs.
Cont(op, pc, userId, id, vehicleId, startTime, endTime, lat) ==
  [op |-> op, pc |-> pc, userId |-> userId, id |-> id, vehicleId |-> vehicleId,
   startTime |-> startTime, endTime |-> endTime, lat |-> lat, reason |-> "",
   dto |-> NoDto]

\* What the step just taken returned to a caller: "ok" or the exception thrown,
\* and, for a call that had suspended, its continuation (handler and
\* arguments).  A call that throws before its first suspension leaves only the
\* exception.
NoCall == Cont("-", "-", "-", 0, "-", 0, 0, 0)
Ret(c, res) == [call |-> c, res |-> res]
NoRet == Ret(NoCall, "none")

Suspended == BagToSet(inflight)
NumInflight == BagCardinality(inflight)

\* The call at hand suspends as c: it starts while another is in flight or not.
Suspend(c) ==
  /\ inflight' = inflight (+) SetToBag({c})
  /\ serial' = (serial /\ NumInflight = 0)
  /\ ret' = NoRet

\* The call at hand returns at once (it threw before suspending).
Throw(e) ==
  /\ ret' = Ret(NoCall, e)
  /\ serial' = (serial /\ NumInflight = 0)
  /\ UNCHANGED inflight

Resume(c, pc) ==
  /\ inflight' = (inflight (-) SetToBag({c})) (+) SetToBag({[c EXCEPT !.pc = pc]})
  /\ ret' = NoRet
  /\ UNCHANGED serial

Finish(c, r) ==
  /\ inflight' = inflight (-) SetToBag({c})
  /\ ret' = Ret(c, r)
  /\ UNCHANGED serial

\* The event objects; a field an event class does not have is "".
Event(name, bookingId, renterId, ownerId, vehicleId, reason, cancelledBy) ==
  [name |-> name, bookingId |-> bookingId, renterId |-> renterId,
   ownerId |-> ownerId, vehicleId |-> vehicleId, reason |-> reason,
   cancelledBy |-> cancelledBy]

BookingCreatedEvent(bookingId, renterId, ownerId, vehicleId) ==
  Event("booking.created", bookingId, renterId, ownerId, vehicleId, "", "")

BookingApprovedEvent(bookingId, renterId, ownerId, vehicleId) ==
  Event("booking.approved", bookingId, renterId, ownerId, vehicleId, "", "")

BookingRejectedEvent(bookingId, renterId, ownerId, reason) ==
  Event("booking.rejected", bookingId, renterId, ownerId, "", reason, "")

BookingCancelledEvent(bookingId, renterId, ownerId, reason, cancelledBy) ==
  Event("booking.cancelled", bookingId, renterId, ownerId, "", reason, cancelledBy)

\* this.eventEmitter.emit(event.name, event)
Emit(event) == emitted' = {event}

NoEmit == emitted' = {}

\* ............................................................ createBooking
NumCreating == BagCardinality(
  [c \in {d \in Suspended : d.op = "createBooking"} |-> inflight[c]])

\* createBooking without the own-vehicle check.
createBookingCallOwnVehicle(userId, vehicleId, startTime, endTime) ==
  /\ Len(bookings) + NumCreating < MaxBookings
  /\ NoEmit
  /\ UNCHANGED <<now, vehicles, bookings, trips, started, calc>>
  /\ IF startTime >= endTime THEN Throw("BadRequestException")
     ELSE IF startTime < now THEN Throw("BadRequestException")
     ELSE IF vehicleId \notin DOMAIN vehicles THEN Throw("NotFoundException")
     ELSE IF ~vehicles[vehicleId].isAvailable
             \/ vehicles[vehicleId].status # "AVAILABLE"
       THEN Throw("ConflictException")
     ELSE Suspend(Cont("createBooking", "findMany", userId, 0, vehicleId,
                       startTime, endTime, 0))

createBookingCall(userId, vehicleId, startTime, endTime) ==
  /\ Len(bookings) + NumCreating < MaxBookings
  /\ NoEmit
  /\ UNCHANGED <<now, vehicles, bookings, trips, started, calc>>
  /\ IF startTime >= endTime THEN Throw("BadRequestException")
     ELSE IF startTime < now THEN Throw("BadRequestException")
     ELSE IF vehicleId \notin DOMAIN vehicles THEN Throw("NotFoundException")
     ELSE IF vehicles[vehicleId].ownerId = userId THEN Throw("BadRequestException")
     ELSE IF ~vehicles[vehicleId].isAvailable
             \/ vehicles[vehicleId].status # "AVAILABLE"
       THEN Throw("ConflictException")
     ELSE Suspend(Cont("createBooking", "findMany", userId, 0, vehicleId,
                       startTime, endTime, 0))

createBookingFindMany(c) ==
  /\ c \in Suspended /\ c.op = "createBooking" /\ c.pc = "findMany"
  /\ NoEmit
  /\ UNCHANGED <<now, vehicles, bookings, trips, started, calc>>
  /\ IF ~isVehicleAvailable(c.vehicleId, c.startTime, c.endTime)
       THEN Finish(c, "ConflictException")
       ELSE Resume(c, "create")

createBookingCreate(c) ==
  /\ c \in Suspended /\ c.op = "createBooking" /\ c.pc = "create"
  /\ bookings' = Append(bookings,
       [renterId |-> c.userId,
        ownerId |-> vehicles[c.vehicleId].ownerId,
        vehicleId |-> c.vehicleId,
        startTime |-> c.startTime,
        endTime |-> c.endTime,
        totalPrice |-> calculateTotalPrice(ToMs(c.startTime), ToMs(c.endTime),
                          pricePerHour[c.vehicleId], pricePerDay[c.vehicleId]),
        deposit |-> vehicleDeposit[c.vehicleId],
        status |-> "PENDING",
        cancellationReason |-> Unset,
        confirmedAt |-> Unset,
        cancelledAt |-> Unset])
  /\ Emit(BookingCreatedEvent(Len(bookings) + 1, c.userId,
                              vehicles[c.vehicleId].ownerId, c.vehicleId))
  /\ Finish(c, "ok")
  /\ UNCHANGED <<now, vehicles, trips, started, calc>>

\* ........................................................... approveBooking
SetStatus(bookingId, status) ==
  bookings' = [bookings EXCEPT ![bookingId].status = status]

approveBookingCall(ownerId, bookingId) ==
  /\ NoEmit
  /\ UNCHANGED <<now, vehicles, bookings, trips, started, calc>>
  /\ IF bookingId \notin RowIds THEN Throw("NotFoundException")
     ELSE IF bookings[bookingId].ownerId # ownerId THEN Throw("BadRequestException")
     ELSE IF bookings[bookingId].status # "PENDING" THEN Throw("BadRequestException")
     ELSE Suspend(Cont("approveBooking", "findMany", ownerId, bookingId,
                       bookings[bookingId].vehicleId, 0, 0, 0))

approveBookingFindMany(c) ==
  /\ c \in Suspended /\ c.op = "approveBooking" /\ c.pc = "findMany"
  /\ NoEmit
  /\ UNCHANGED <<now, vehicles, bookings, trips, started, calc>>
  /\ IF conflictingBookings(c.id) # {}
       THEN Finish(c, "BadRequestException")
       ELSE Resume(c, "update")

\* approveBooking building its event with the two user ids swapped.
approveBookingUpdateSwapped(c) ==
  /\ c \in Suspended /\ c.op = "approveBooking" /\ c.pc = "update"
  /\ bookings' = [bookings EXCEPT ![c.id].status = "CONFIRMED",
                                  ![c.id].confirmedAt = Value(Date)]
  /\ Emit(BookingApprovedEvent(c.id, c.userId, bookings[c.id].renterId,
                               bookings[c.id].vehicleId))
  /\ Finish(c, "ok")
  /\ UNCHANGED <<now, vehicles, trips, started, calc>>

approveBookingUpdate(c) ==
  /\ c \in Suspended /\ c.op = "approveBooking" /\ c.pc = "update"
  /\ bookings' = [bookings EXCEPT ![c.id].status = "CONFIRMED",
                                  ![c.id].confirmedAt = Value(Date)]
  /\ Emit(BookingApprovedEvent(c.id, bookings[c.id].renterId, c.userId,
                               bookings[c.id].vehicleId))
  /\ Finish(c, "ok")
  /\ UNCHANGED <<now, vehicles, trips, started, calc>>

\* ............................................................ rejectBooking
\* rejectBooking without the PENDING check.
rejectBookingCallAnyStatus(ownerId, bookingId, reason) ==
  /\ NoEmit
  /\ UNCHANGED <<now, vehicles, bookings, trips, started, calc>>
  /\ IF bookingId \notin RowIds THEN Throw("NotFoundException")
     ELSE IF bookings[bookingId].ownerId # ownerId THEN Throw("BadRequestException")
     ELSE Suspend([Cont("rejectBooking", "update", ownerId, bookingId,
                        bookings[bookingId].vehicleId, 0, 0, 0)
                   EXCEPT !.reason = reason])

rejectBookingCall(ownerId, bookingId, reason) ==
  /\ NoEmit
  /\ UNCHANGED <<now, vehicles, bookings, trips, started, calc>>
  /\ IF bookingId \notin RowIds THEN Throw("NotFoundException")
     ELSE IF bookings[bookingId].ownerId # ownerId THEN Throw("BadRequestException")
     ELSE IF bookings[bookingId].status # "PENDING" THEN Throw("BadRequestException")
     ELSE Suspend([Cont("rejectBooking", "update", ownerId, bookingId,
                        bookings[bookingId].vehicleId, 0, 0, 0)
                   EXCEPT !.reason = reason])

rejectBookingUpdate(c) ==
  /\ c \in Suspended /\ c.op = "rejectBooking" /\ c.pc = "update"
  /\ bookings' = [bookings EXCEPT ![c.id].status = "REJECTED",
                                  ![c.id].cancellationReason = Value(c.reason),
                                  ![c.id].cancelledAt = Value(Date)]
  /\ Emit(BookingRejectedEvent(c.id, bookings[c.id].renterId, c.userId, c.reason))
  /\ Finish(c, "ok")
  /\ UNCHANGED <<now, vehicles, trips, started, calc>>

\* ............................................................ cancelBooking
\* cancelBooking that refuses only the terminal statuses.
cancelBookingCallOngoingToo(userId, bookingId, reason) ==
  /\ NoEmit
  /\ UNCHANGED <<now, vehicles, bookings, trips, started, calc>>
  /\ IF bookingId \notin RowIds THEN Throw("NotFoundException")
     ELSE IF bookings[bookingId].renterId # userId THEN Throw("BadRequestException")
     ELSE IF bookings[bookingId].status \notin ActiveStatuses
       THEN Throw("BadRequestException")
     ELSE Suspend([Cont("cancelBooking", "update", userId, bookingId,
                        bookings[bookingId].vehicleId, 0, 0, 0)
                   EXCEPT !.reason = reason])

cancelBookingCall(userId, bookingId, reason) ==
  /\ NoEmit
  /\ UNCHANGED <<now, vehicles, bookings, trips, started, calc>>
  /\ IF bookingId \notin RowIds THEN Throw("NotFoundException")
     ELSE IF bookings[bookingId].renterId # userId THEN Throw("BadRequestException")
     ELSE IF bookings[bookingId].status # "PENDING"
             /\ bookings[bookingId].status # "CONFIRMED"
       THEN Throw("BadRequestException")
     ELSE Suspend([Cont("cancelBooking", "update", userId, bookingId,
                        bookings[bookingId].vehicleId, 0, 0, 0)
                   EXCEPT !.reason = reason])

cancelBookingUpdate(c) ==
  /\ c \in Suspended /\ c.op = "cancelBooking" /\ c.pc = "update"
  /\ bookings' = [bookings EXCEPT ![c.id].status = "CANCELLED",
                                  ![c.id].cancellationReason = Value(c.reason),
                                  ![c.id].cancelledAt = Value(Date)]
  /\ Emit(BookingCancelledEvent(c.id, c.userId, bookings[c.id].ownerId,
                                c.reason, "renter"))
  /\ Finish(c, "ok")
  /\ UNCHANGED <<now, vehicles, trips, started, calc>>

\* ................................................................ startTrip
TripRowIds == 1 .. Len(trips)
TripsOf(bookingId) == { t \in TripRowIds : trips[t].bookingId = bookingId }

\* startTrip without the start-time check.
startTripCallAnyTime(userId, bookingId, lat) ==
  /\ NoEmit
  /\ UNCHANGED <<now, vehicles, bookings, trips, started, calc>>
  /\ IF bookingId \notin RowIds THEN Throw("NotFoundException")
     ELSE IF bookings[bookingId].renterId # userId THEN Throw("BadRequestException")
     ELSE IF bookings[bookingId].status # "CONFIRMED" THEN Throw("BadRequestException")
     ELSE IF TripsOf(bookingId) # {} THEN Throw("BadRequestException")
     ELSE Suspend(Cont("startTrip", "transaction", userId, bookingId,
                       bookings[bookingId].vehicleId, 0, 0, lat))

startTripCall(userId, bookingId, lat) ==
  /\ NoEmit
  /\ UNCHANGED <<now, vehicles, bookings, trips, started, calc>>
  /\ IF bookingId \notin RowIds THEN Throw("NotFoundException")
     ELSE IF bookings[bookingId].renterId # userId THEN Throw("BadRequestException")
     ELSE IF bookings[bookingId].status # "CONFIRMED" THEN Throw("BadRequestException")
     ELSE IF TripsOf(bookingId) # {} THEN Throw("BadRequestException")
     ELSE IF now < bookings[bookingId].startTime THEN Throw("BadRequestException")
     ELSE Suspend(Cont("startTrip", "transaction", userId, bookingId,
                       bookings[bookingId].vehicleId, 0, 0, lat))

\* The transaction without the unique index trips_booking_id_key.
startTripTransactionNoUnique(c) ==
  /\ c \in Suspended /\ c.op = "startTrip" /\ c.pc = "transaction"
  /\ trips' = Append(trips,
       [bookingId |-> c.id, renterId |-> c.userId, vehicleId |-> c.vehicleId,
        status |-> "ONGOING", startLatitude |-> c.lat,
        startLongitude |-> startLongitude, startedAt |-> Value(Date),
        hasIssues |-> FALSE, issueDescription |-> Unset])
  /\ SetStatus(c.id, "ONGOING")
  /\ started' = started \cup {c.id}
  /\ Finish(c, "ok")
  /\ NoEmit
  /\ UNCHANGED <<now, vehicles, calc>>

\* tx.trip.create fails on the unique index trips_booking_id_key when the
\* booking has a trip, and the transaction rolls back; otherwise both writes
\* commit together.
startTripTransaction(c) ==
  /\ c \in Suspended /\ c.op = "startTrip" /\ c.pc = "transaction"
  /\ IF TripsOf(c.id) # {}
       THEN /\ Finish(c, "UniqueConstraintViolation")
            /\ NoEmit
            /\ UNCHANGED <<now, vehicles, bookings, trips, started, calc>>
       ELSE /\ trips' = Append(trips,
                 [bookingId |-> c.id, renterId |-> c.userId,
                  vehicleId |-> c.vehicleId, status |-> "ONGOING",
                  startLatitude |-> c.lat, startLongitude |-> startLongitude,
                  startedAt |-> Value(Date),
                  hasIssues |-> FALSE, issueDescription |-> Unset])
            /\ SetStatus(c.id, "ONGOING")
            /\ started' = started \cup {c.id}
            /\ Finish(c, "ok")
            /\ NoEmit
            /\ UNCHANGED <<now, vehicles, calc>>

\* .................................................................. endTrip
Falsy(x) == x = 0

\* EndTripDto: hasIssues and issueDescription are optional.
EndTripDtos ==
  {NoDto, [hasIssues |-> Value(FALSE), issueDescription |-> Unset]}
  \cup {[hasIssues |-> Value(TRUE), issueDescription |-> Value(i)] : i \in Issues}

\* dto.hasIssues || false
OrFalse(x) == IF x = Unset THEN FALSE ELSE x[1]

endTripCallAnyStatus(userId, tripId, dto) ==
  /\ NoEmit
  /\ UNCHANGED <<now, vehicles, bookings, trips, started, calc>>
  /\ IF tripId \notin TripRowIds THEN Throw("NotFoundException")
     ELSE IF trips[tripId].renterId # userId THEN Throw("BadRequestException")
     ELSE IF trips[tripId].startedAt = Unset \/ Falsy(trips[tripId].startLatitude)
             \/ Falsy(trips[tripId].startLongitude)
       THEN Throw("BadRequestException")
     ELSE Suspend([Cont("endTrip", "transaction", userId, tripId,
                        trips[tripId].vehicleId, 0, 0, 0) EXCEPT !.dto = dto])

endTripCall(userId, tripId, dto) ==
  /\ NoEmit
  /\ UNCHANGED <<now, vehicles, bookings, trips, started, calc>>
  /\ IF tripId \notin TripRowIds THEN Throw("NotFoundException")
     ELSE IF trips[tripId].renterId # userId THEN Throw("BadRequestException")
     ELSE IF trips[tripId].status # "ONGOING" THEN Throw("BadRequestException")
     ELSE IF trips[tripId].startedAt = Unset \/ Falsy(trips[tripId].startLatitude)
             \/ Falsy(trips[tripId].startLongitude)
       THEN Throw("BadRequestException")
     ELSE Suspend([Cont("endTrip", "transaction", userId, tripId,
                        trips[tripId].vehicleId, 0, 0, 0) EXCEPT !.dto = dto])

endTripTransaction(c) ==
  /\ c \in Suspended /\ c.op = "endTrip" /\ c.pc = "transaction"
  /\ trips' = [trips EXCEPT
                 ![c.id].status = "COMPLETED",
                 ![c.id].hasIssues = OrFalse(c.dto.hasIssues),
                 ![c.id].issueDescription =
                    IF c.dto.issueDescription = Unset THEN @ ELSE c.dto.issueDescription]
  /\ SetStatus(trips[c.id].bookingId, "COMPLETED")
  /\ vehicles' = [vehicles EXCEPT ![c.vehicleId].totalTrips = @ + 1]
  /\ Finish(c, "ok")
  /\ NoEmit
  /\ UNCHANGED <<now, started, calc>>

\* ------------------------------------------------------------------ clock
Tick(limit) ==
  /\ now < limit
  /\ now' = now + 1
  /\ ret' = NoRet
  /\ NoEmit
  /\ UNCHANGED <<vehicles, bookings, trips, inflight, serial, started, calc>>

\* ---------------------------------------------------------- specifications
NoCalc == [startMs |-> 0, endMs |-> 0, perHour |-> 0, perDay |-> 0, total |-> Unset]

StoreInit ==
  /\ now = 0
  /\ \E listing \in Listings :
       vehicles = [v \in VehicleIds |->
                     [ownerId |-> vehicleOwner[v], status |-> listing.status,
                      isAvailable |-> listing.isAvailable, totalTrips |-> 0]]
  /\ bookings = <<>>
  /\ trips = <<>>
  /\ payments = <<>>
  /\ inflight = EmptyBag
  /\ emitted = {}
  /\ ret = NoRet
  /\ serial = TRUE
  /\ started = {}

\* Nobody connected, Firebase not configured, no notification yet.
FanOff ==
  /\ notifications = <<>>
  /\ listening = EmptyBag
  /\ sent = {}
  /\ userSockets = <<>>
  /\ clients = <<>>
  /\ fcmInitialized = FALSE
  /\ fcmTokens = [u \in Users |-> {}]

Init == StoreInit /\ calc = NoCalc /\ FanOff

\* A request arrives: the handler runs up to its first suspension.
\* The window is drawn from T and the body of an endTrip request from D; at
\* most `limit` handlers are in flight.
Call(T, D, limit) ==
  \/ \E u \in Users, v \in VehicleIds \cup {NoVehicle}, s \in T, e \in T :
       NumInflight < limit /\ createBookingCall(u, v, s, e) /\ Quiet
  \/ \E u \in Users, b \in BookingIds :
       NumInflight < limit /\ approveBookingCall(u, b) /\ Quiet
  \/ \E u \in Users, b \in BookingIds, r \in Reasons :
       NumInflight < limit /\ rejectBookingCall(u, b, r) /\ Quiet
  \/ \E u \in Users, b \in BookingIds, r \in Reasons :
       NumInflight < limit /\ cancelBookingCall(u, b, r) /\ Quiet
  \/ \E u \in Users, b \in BookingIds, lat \in Latitudes :
       NumInflight < limit /\ startTripCall(u, b, lat) /\ Quiet
  \/ \E u \in Users, t \in TripIds, dto \in D :
       NumInflight < limit /\ endTripCall(u, t, dto) /\ Quiet

\* A suspended handler's store access completes and the handler runs on.
Step ==
  \/ \E c \in Suspended : createBookingFindMany(c) /\ Quiet
  \/ \E c \in Suspended : createBookingCreate(c) /\ Quiet
  \/ \E c \in Suspended : approveBookingFindMany(c) /\ Quiet
  \/ \E c \in Suspended : approveBookingUpdate(c) /\ Quiet
  \/ \E c \in Suspended : rejectBookingUpdate(c) /\ Quiet
  \/ \E c \in Suspended : cancelBookingUpdate(c) /\ Quiet
  \/ \E c \in Suspended : startTripTransaction(c) /\ Quiet
  \/ \E c \in Suspended : endTripTransaction(c) /\ Quiet

\* Requests are served concurrently: up to MaxInflight handlers in flight.
Next == Call(Times, {NoDto}, MaxInflight) \/ Step \/ (Tick(MaxTime) /\ Quiet)

Spec == Init /\ [][Next]_vars

\* Requests are served one at a time, over a horizon one unit longer.
SerialNext == Call(WideTimes, {NoDto}, 1) \/ Step \/ (Tick(MaxTime + 1) /\ Quiet)

SerialSpec == Init /\ [][SerialNext]_vars

\* calculateTotalPrice alone, on windows given to the millisecond.
Instants ==
  {0, 1, 4 * MsPerHour, 10 * MsPerHour, 14 * MsPerHour,
   24 * MsPerHour - 60 * 1000, 24 * MsPerHour - 1, 24 * MsPerHour,
   24 * MsPerHour + 1, 34 * MsPerHour, 48 * MsPerHour, 48 * MsPerHour + 1}
Rates == {[perHour |-> 20000, perDay |-> 300000], [perHour |-> 15000, perDay |-> 90000]}

PriceInit ==
  /\ StoreInit
  /\ FanOff
  /\ \E s \in Instants, e \in Instants, r \in Rates :
       /\ s < e
       /\ calc = [startMs |-> s, endMs |-> e, perHour |-> r.perHour,
                  perDay |-> r.perDay, total |-> Unset]

PriceNext ==
  /\ calc.total = Unset
  /\ calc' = [calc EXCEPT !.total =
                 Value(calculateTotalPrice(calc.startMs, calc.endMs,
                                           calc.perHour, calc.perDay))]
  /\ UNCHANGED <<now, vehicles, bookings, trips, inflight, emitted, ret, serial, started>>
  /\ Quiet

PriceSpec == PriceInit /\ [][PriceNext]_vars

\* ------------------------------------------------ the notification side
\* A user's socket and device token, when there is one.
socketOf == [u \in Users |-> IF u = "u1" THEN "s1" ELSE "s2"]
tokenOf == [u \in Users |-> IF u = "u1" THEN "t1" ELSE "t2"]

\* A listener, or the push send it started, suspended at a store or FCM call.
Listener(op, pc, event, tokens) ==
  [op |-> op, pc |-> pc, event |-> event, tokens |-> tokens]

\* A sendPushNotification run: its payload and the tokens it is working on.
PushSend(pc, payload, tokens) ==
  [op |-> "sendPushNotification", pc |-> pc, payload |-> payload, tokens |-> tokens]

Listening == BagToSet(listening)

\* @OnEvent(name): the handler that listens to the event.
HandlerOf ==
  [e \in {"booking.created", "booking.approved", "booking.rejected",
          "booking.cancelled"} |->
     CASE e = "booking.created" -> "handleBookingCreated"
       [] e = "booking.approved" -> "handleBookingApproved"
       [] e = "booking.rejected" -> "handleBookingRejected"
       [] e = "booking.cancelled" -> "handleBookingCancelled"]

\* emit() runs the listener of each emitted event up to its first await, the
\* insert createNotification asks the store for.
Launch ==
  /\ listening' = listening (+)
       SetToBag({ Listener(HandlerOf[e.name], "create", e, {}) : e \in emitted' })
  /\ sent' = {}
  /\ UNCHANGED <<notifications, userSockets, fcmInitialized, fcmTokens>>

isUserOnline(userId) ==
  userId \in DOMAIN userSockets /\ userSockets[userId] # {}

\* server.to(room).emit(event, data)
Message(room, event, bookingId, status, reason, cancelledBy) ==
  [room |-> room, event |-> event, bookingId |-> bookingId, status |-> status,
   reason |-> reason, cancelledBy |-> cancelledBy]

sendToUser(userId, event, bookingId, reason, cancelledBy) ==
  Message(<<"user", userId>>, event, bookingId, "", reason, cancelledBy)

broadcastBookingUpdate(bookingId, status, reason, cancelledBy) ==
  Message(<<"booking", bookingId>>, "booking_status_changed", bookingId, status,
          reason, cancelledBy)

NotificationPayload(receiverId, senderId, type, bookingId) ==
  [receiverId |-> receiverId, senderId |-> senderId, type |-> type,
   bookingId |-> bookingId]

\* The store completes the insert; createNotification starts the push send
\* without awaiting it (the send returns at once when Firebase is not
\* initialised, and is suspended at its token query otherwise) and returns the
\* row; the listener then puts `messages` on the sockets and ends.
createNotification(c, payload, messages) ==
  /\ notifications' = Append(notifications,
       [receiverId |-> payload.receiverId, senderId |-> payload.senderId,
        type |-> payload.type, bookingId |-> payload.bookingId,
        isRead |-> FALSE, readAt |-> Unset])
  /\ listening' = (listening (-) SetToBag({c})) (+)
       (IF fcmInitialized
          THEN SetToBag({PushSend("queryRaw", payload, {})})
          ELSE EmptyBag)
  /\ sent' = messages
  /\ ret' = Ret(c, "ok")
  /\ emitted' = {}
  /\ UNCHANGED <<now, vehicles, bookings, trips, inflight, serial, started, calc,
                 userSockets, fcmInitialized, fcmTokens>>

handleBookingCreated(c) ==
  /\ c \in Listening /\ c.op = "handleBookingCreated" /\ c.pc = "create"
  /\ createNotification(c,
       NotificationPayload(c.event.ownerId, c.event.renterId, "BOOKING_REQUEST",
                           c.event.bookingId),
       IF isUserOnline(c.event.ownerId)
         THEN {sendToUser(c.event.ownerId, "booking_request", c.event.bookingId, "", "")}
         ELSE {})

handleBookingApproved(c) ==
  /\ c \in Listening /\ c.op = "handleBookingApproved" /\ c.pc = "create"
  /\ createNotification(c,
       NotificationPayload(c.event.renterId, c.event.ownerId, "BOOKING_CONFIRMED",
                           c.event.bookingId),
       (IF isUserOnline(c.event.renterId)
          THEN {sendToUser(c.event.renterId, "booking_confirmed", c.event.bookingId, "", "")}
          ELSE {})
       \cup {broadcastBookingUpdate(c.event.bookingId, "CONFIRMED", "", "")})

\* The handler without its broadcast.
handleBookingRejectedNoBroadcast(c) ==
  /\ c \in Listening /\ c.op = "handleBookingRejected" /\ c.pc = "create"
  /\ createNotification(c,
       NotificationPayload(c.event.renterId, c.event.ownerId, "BOOKING_REJECTED",
                           c.event.bookingId),
       IF isUserOnline(c.event.renterId)
         THEN {sendToUser(c.event.renterId, "booking_rejected", c.event.bookingId,
                          c.event.reason, "")}
         ELSE {})

handleBookingRejected(c) ==
  /\ c \in Listening /\ c.op = "handleBookingRejected" /\ c.pc = "create"
  /\ createNotification(c,
       NotificationPayload(c.event.renterId, c.event.ownerId, "BOOKING_REJECTED",
                           c.event.bookingId),
       (IF isUserOnline(c.event.renterId)
          THEN {sendToUser(c.event.renterId, "booking_rejected", c.event.bookingId,
                           c.event.reason, "")}
          ELSE {})
       \cup {broadcastBookingUpdate(c.event.bookingId, "REJECTED", c.event.reason, "")})

\* The handler notifying the renter whoever cancelled.
handleBookingCancelledToRenter(c) ==
  /\ c \in Listening /\ c.op = "handleBookingCancelled" /\ c.pc = "create"
  /\ createNotification(c,
       NotificationPayload(c.event.renterId, c.event.ownerId, "BOOKING_CANCELLED",
                           c.event.bookingId),
       (IF isUserOnline(c.event.renterId)
          THEN {sendToUser(c.event.renterId, "booking_cancelled", c.event.bookingId,
                           c.event.reason, c.event.cancelledBy)}
          ELSE {})
       \cup {broadcastBookingUpdate(c.event.bookingId, "CANCELLED", c.event.reason,
                                    c.event.cancelledBy)})

handleBookingCancelled(c) ==
  /\ c \in Listening /\ c.op = "handleBookingCancelled" /\ c.pc = "create"
  /\ LET receiverId == IF c.event.cancelledBy = "renter"
                         THEN c.event.ownerId ELSE c.event.renterId
         senderId == IF c.event.cancelledBy = "renter"
                       THEN c.event.renterId ELSE c.event.ownerId
     IN  createNotification(c,
           NotificationPayload(receiverId, senderId, "BOOKING_CANCELLED",
                               c.event.bookingId),
           (IF isUserOnline(receiverId)
              THEN {sendToUser(receiverId, "booking_cancelled", c.event.bookingId,
                               c.event.reason, c.event.cancelledBy)}
              ELSE {})
           \cup {broadcastBookingUpdate(c.event.bookingId, "CANCELLED",
                                        c.event.reason, c.event.cancelledBy)})

\* ........................................................ sendPushNotification
\* What a push step leaves alone.
PushFrame ==
  /\ emitted' = {}
  /\ UNCHANGED <<now, vehicles, bookings, trips, inflight, serial, started, calc,
                 notifications, userSockets, fcmInitialized>>

PushDone(c, res) ==
  /\ listening' = listening (-) SetToBag({c})
  /\ ret' = Ret(c, res)

\* The promise rejects with nobody handling the rejection.
PushRejectedUnhandled(c) == PushDone(c, "unhandledRejection")

\* The promise rejects: the .catch createNotification attached logs the error.
PushRejected(c) == PushDone(c, "logged")

\* The token query returns: no active token ends the send.
sendPushQueryRaw(c) ==
  /\ c \in Listening /\ c.op = "sendPushNotification" /\ c.pc = "queryRaw"
  /\ sent' = {}
  /\ PushFrame /\ UNCHANGED fcmTokens
  /\ IF fcmTokens[c.payload.receiverId] = {}
       THEN PushDone(c, "ok")
       ELSE /\ listening' = (listening (-) SetToBag({c})) (+)
                 SetToBag({PushSend("send", c.payload, fcmTokens[c.payload.receiverId])})
            /\ ret' = NoRet

\* sendEachForMulticast throws, or answers with the tokens it failed for.
sendPushSend(c) ==
  /\ c \in Listening /\ c.op = "sendPushNotification" /\ c.pc = "send"
  /\ PushFrame /\ UNCHANGED fcmTokens
  /\ \/ /\ sent' = {}
        /\ PushRejected(c)
     \/ \E failedTokens \in SUBSET c.tokens :
          /\ sent' = { Message(<<"fcm", t>>, c.payload.type, c.payload.bookingId, "", "", "")
                         : t \in c.tokens }
          /\ IF failedTokens = {}
               THEN PushDone(c, "ok")
               ELSE /\ listening' = (listening (-) SetToBag({c})) (+)
                         SetToBag({PushSend("executeRaw", c.payload, failedTokens)})
                    /\ ret' = NoRet

\* The failed tokens are deactivated.
sendPushExecuteRaw(c) ==
  /\ c \in Listening /\ c.op = "sendPushNotification" /\ c.pc = "executeRaw"
  /\ fcmTokens' = [u \in Users |-> fcmTokens[u] \ c.tokens]
  /\ sent' = {}
  /\ PushFrame
  /\ PushDone(c, "ok")

\* .............................................................. markAllAsRead
Unread(rows, userId) ==
  { i \in 1 .. Len(rows) : rows[i].receiverId = userId /\ ~rows[i].isRead }

getUnreadCount(userId) == Cardinality(Unread(notifications, userId))

\* updateMany on every row of the user, read or not.
markAllAsReadEveryRow(userId) ==
  /\ notifications' =
       [i \in 1 .. Len(notifications) |->
          IF notifications[i].receiverId = userId
            THEN [notifications[i] EXCEPT !.isRead = TRUE, !.readAt = Value(now)]
            ELSE notifications[i]]
  /\ ret' = Ret([op |-> "markAllAsRead", userId |-> userId], "ok")
  /\ sent' = {}
  /\ emitted' = {}
  /\ UNCHANGED <<now, vehicles, bookings, trips, inflight, serial, started, calc,
                 listening, userSockets, fcmInitialized, fcmTokens>>

\* readAt is the clock value here: the claim about it compares two calls.
markAllAsRead(userId) ==
  /\ notifications' =
       [i \in 1 .. Len(notifications) |->
          IF notifications[i].receiverId = userId /\ ~notifications[i].isRead
            THEN [notifications[i] EXCEPT !.isRead = TRUE, !.readAt = Value(now)]
            ELSE notifications[i]]
  /\ ret' = Ret([op |-> "markAllAsRead", userId |-> userId], "ok")
  /\ sent' = {}
  /\ emitted' = {}
  /\ UNCHANGED <<now, vehicles, bookings, trips, inflight, serial, started, calc,
                 listening, userSockets, fcmInitialized, fcmTokens>>

\* ........................................ bookings with their notifications
MaxFanTime == 1
MaxFanBookings == 1
FanTimes == 0 .. MaxFanTime

\* Whether Firebase is configured and the users have registered a device.
FcmSetups ==
  {[initialized |-> FALSE, devices |-> {}],
   [initialized |-> TRUE, devices |-> {}],
   [initialized |-> TRUE, devices |-> Users]}

\* Who is connected, and the push setup.
FanInit ==
  /\ StoreInit
  /\ calc = NoCalc
  /\ notifications = <<>>
  /\ listening = EmptyBag
  /\ sent = {}
  /\ \E online \in {{}, Users} :
       /\ userSockets = [u \in online |-> {socketOf[u]}]
       /\ clients = [s \in {socketOf[u] : u \in online} |->
                       [connected |-> TRUE,
                        userId |-> Value(CHOOSE u \in online : socketOf[u] = s)]]
  /\ \E setup \in FcmSetups :
       /\ fcmInitialized = setup.initialized
       /\ fcmTokens = [u \in Users |->
                         IF u \in setup.devices THEN {tokenOf[u]} ELSE {}]

\* The four handlers that emit, served one at a time; every step runs the
\* listeners of what it emits.
FanCall ==
  \/ \E u \in Users, v \in VehicleIds, s \in FanTimes, e \in FanTimes :
       /\ NumInflight < 1 /\ Len(bookings) < MaxFanBookings
       /\ createBookingCall(u, v, s, e) /\ Launch
  \/ \E u \in Users, b \in BookingIds :
       NumInflight < 1 /\ approveBookingCall(u, b) /\ Launch
  \/ \E u \in Users, b \in BookingIds, r \in Reasons :
       NumInflight < 1 /\ rejectBookingCall(u, b, r) /\ Launch
  \/ \E u \in Users, b \in BookingIds, r \in Reasons :
       NumInflight < 1 /\ cancelBookingCall(u, b, r) /\ Launch

FanStep ==
  \/ \E c \in Suspended : createBookingFindMany(c) /\ Launch
  \/ \E c \in Suspended : createBookingCreate(c) /\ Launch
  \/ \E c \in Suspended : approveBookingFindMany(c) /\ Launch
  \/ \E c \in Suspended : approveBookingUpdate(c) /\ Launch
  \/ \E c \in Suspended : rejectBookingUpdate(c) /\ Launch
  \/ \E c \in Suspended : cancelBookingUpdate(c) /\ Launch

\* The store completes a listener's insert.
Listen ==
  \/ \E c \in Listening : handleBookingCreated(c)
  \/ \E c \in Listening : handleBookingApproved(c)
  \/ \E c \in Listening : handleBookingRejected(c)
  \/ \E c \in Listening : handleBookingCancelled(c)

Push ==
  \/ \E c \in Listening : sendPushQueryRaw(c)
  \/ \E c \in Listening : sendPushSend(c)
  \/ \E c \in Listening : sendPushExecuteRaw(c)

FanoutNext ==
  \/ FanCall /\ Aside
  \/ FanStep /\ Aside
  \/ Listen /\ Aside
  \/ Push /\ Aside
  \/ \E u \in Users : markAllAsRead(u) /\ Aside
  \/ (Tick(MaxFanTime) /\ Quiet)

\* The store answers every insert it is asked for, and the runtime resumes
\* the listener that awaits it.
FanoutSpec == FanInit /\ [][FanoutNext]_vars /\ WF_vars(Listen /\ Aside)

\* -------------------------------------------------------- getVehicleSchedule
scheduleTake == 30

\* BookingEntity.fromPrisma(booking): Object.assign of every column of the row.
fromPrisma(id, row) == [id |-> id] @@ row

\* The results findMany may give: the active bookings of the vehicle that end
\* at `at` or later, by ascending startTime (equal start times in either
\* order), the first scheduleTake of them, each mapped to a BookingEntity.
getVehicleSchedule(rows, vehicleId, at) ==
  LET ids == { i \in 1 .. Len(rows) : /\ rows[i].vehicleId = vehicleId
                                      /\ rows[i].status \in ActiveStatuses
                                      /\ rows[i].endTime >= at }
      n == Cardinality(ids)
      orders == { o \in [1 .. n -> ids] :
                    /\ \A j, k \in 1 .. n : j # k => o[j] # o[k]
                    /\ \A j, k \in 1 .. n :
                         j < k => rows[o[j]].startTime <= rows[o[k]].startTime }
      taken == IF n < scheduleTake THEN n ELSE scheduleTake
  IN  { [j \in 1 .. taken |-> fromPrisma(o[j], rows[o[j]])] : o \in orders }

\* The public endpoint: one read, and the entities go to the caller.
getVehicleScheduleCall(vehicleId) ==
  /\ \E rows \in getVehicleSchedule(bookings, vehicleId, now) :
       ret' = [call |-> [op |-> "getVehicleSchedule", vehicleId |-> vehicleId],
               res |-> "ok", rows |-> rows]
  /\ NoEmit
  /\ UNCHANGED <<now, vehicles, bookings, trips, inflight, serial, started, calc>>

\* The engine served one call at a time, and the schedule read by anybody.
ScheduleNext ==
  \/ Call(Times, {NoDto}, 1)
  \/ Step
  \/ (Tick(MaxTime) /\ Quiet)
  \/ \E v \in VehicleIds : getVehicleScheduleCall(v) /\ Quiet

ScheduleSpec == Init /\ [][ScheduleNext]_vars

\* ------------------------------------------------- double-precision numbers
\* A number of the payments service is an IEEE-754 double: zero, or a
\* significand of mantissaBits bits times a power of two (amounts are neither
\* negative, subnormal nor infinite).  The significand is a sequence of
\* hexadecimal digits, least significant first; zero is the empty sequence.
mantissaBits == 53

Trim(d) ==
  LET top == { i \in 1 .. Len(d) : d[i] # 0 }
  IN  IF top = {} THEN <<>>
      ELSE SubSeq(d, 1, CHOOSE i \in top : \A j \in top : j <= i)

DigitAt(d, i) == IF i <= Len(d) THEN d[i] ELSE 0

\* d * k for 0 <= k <= 16.
MulSmall(d, k) ==
  LET n == Len(d)
      carry[i \in 0 .. n] ==
        IF i = 0 THEN 0 ELSE (d[i] * k + carry[i - 1]) \div 16
  IN  Trim([i \in 1 .. n + 1 |->
              IF i <= n THEN (d[i] * k + carry[i - 1]) % 16 ELSE carry[n]])

AddDigits(a, b) ==
  LET n == IF Len(a) > Len(b) THEN Len(a) ELSE Len(b)
      carry[i \in 0 .. n] ==
        IF i = 0 THEN 0
        ELSE (DigitAt(a, i) + DigitAt(b, i) + carry[i - 1]) \div 16
  IN  Trim([i \in 1 .. n + 1 |->
              IF i <= n THEN (DigitAt(a, i) + DigitAt(b, i) + carry[i - 1]) % 16
              ELSE carry[n]])

\* a - b for a >= b.
SubDigits(a, b) ==
  LET n == Len(a)
      borrow[i \in 0 .. n] ==
        IF i = 0 THEN 0
        ELSE IF DigitAt(a, i) - DigitAt(b, i) - borrow[i - 1] < 0 THEN 1 ELSE 0
  IN  Trim([i \in 1 .. n |->
              (DigitAt(a, i) - DigitAt(b, i) - borrow[i - 1] + 16) % 16])

\* d * 16^k
ShiftDigits(d, k) == IF d = <<>> THEN d ELSE [i \in 1 .. k |-> 0] \o d

\* The sum of the products a[i] * b[j] that weigh 16^(k-1).
Column(a, b, k) ==
  LET sum[i \in 0 .. Len(a)] ==
        IF i = 0 THEN 0
        ELSE sum[i - 1] + (IF k + 1 - i \in 1 .. Len(b) THEN a[i] * b[k + 1 - i] ELSE 0)
  IN  sum[Len(a)]

MulDigits(a, b) ==
  LET n == Len(a) + Len(b)
      carry[k \in 0 .. n] ==
        IF k = 0 THEN 0 ELSE (Column(a, b, k) + carry[k - 1]) \div 16
  IN  Trim([k \in 1 .. n |-> (Column(a, b, k) + carry[k - 1]) % 16])

BitLen(d) ==
  IF d = <<>> THEN 0
  ELSE LET t == d[Len(d)]
       IN  4 * (Len(d) - 1)
             + (IF t >= 8 THEN 4 ELSE IF t >= 4 THEN 3 ELSE IF t >= 2 THEN 2 ELSE 1)

\* d * 2^j
ShiftLeft(d, j) == ShiftDigits(MulSmall(d, 2 ^ (j % 4)), j \div 4)

Zero == [m |-> <<>>, e |-> 0]

\* The double nearest to m * 2^e, ties to the even significand.
Round(m, e) ==
  LET len == BitLen(m)
  IN  IF len = 0 THEN Zero
      ELSE IF len <= mantissaBits
        THEN [m |-> ShiftLeft(m, mantissaBits - len), e |-> e - (mantissaBits - len)]
      ELSE LET drop == len - mantissaBits
               j == (4 - (drop % 4)) % 4
               wide == MulSmall(m, 2 ^ j)
               nd == (drop + j) \div 4
               q == SubSeq(wide, nd + 1, Len(wide))
               rem == SubSeq(wide, 1, nd)
               low == \A i \in 1 .. nd - 1 : rem[i] = 0
               up == \/ rem[nd] > 8
                     \/ rem[nd] = 8 /\ ~low
                     \/ rem[nd] = 8 /\ low /\ q[1] % 2 = 1
               r == IF up THEN AddDigits(q, <<1>>) ELSE q
           IN  IF BitLen(r) <= mantissaBits
                 THEN [m |-> r, e |-> e - j + 4 * nd]
                 ELSE [m |-> ShiftDigits(<<1>>, (mantissaBits - 1) \div 4),
                       e |-> e - j + 4 * nd + 1]

\* The significands of x and y over the smaller of the two exponents.
Aligned(x, y) ==
  IF x.e >= y.e THEN [a |-> ShiftLeft(x.m, x.e - y.e), b |-> y.m, e |-> y.e]
  ELSE [a |-> x.m, b |-> ShiftLeft(y.m, y.e - x.e), e |-> x.e]

\* x + y, x - y (for x >= y) and x * y as JavaScript computes them.
Plus(x, y) ==
  IF x = Zero THEN y ELSE IF y = Zero THEN x
  ELSE LET al == Aligned(x, y) IN Round(AddDigits(al.a, al.b), al.e)

Minus(x, y) ==
  IF y = Zero THEN x
  ELSE LET al == Aligned(x, y) IN Round(SubDigits(al.a, al.b), al.e)

TimesD(x, y) == Round(MulDigits(x.m, y.m), x.e + y.e)

\* The double written 0x1.hhhhhhhhhhhhhp+p: `hex` is the fourteen digits
\* 1hhhhhhhhhhhhh, most significant first.
Double(hex, p) ==
  [m |-> [i \in 1 .. Len(hex) |-> hex[Len(hex) + 1 - i]], e |-> p - (mantissaBits - 1)]

\* ------------------------------------------------------------- payments
\* 0.15
PLATFORM_FEE_RATE == Double(<<1, 3, 3, 3, 3, 3, 3, 3, 3, 3, 3, 3, 3, 3>>, -3)

PaymentMethods == {"VNPAY"}

\* What a booking costs, as createBooking stored it: 19 hours at 22542.58
\* with a deposit of 10587.56; a day at 300000 with a deposit of 500000; an
\* hour at 20000 without deposit.
Fares ==
  {[totalPrice |-> Double(<<1, 10, 2, 4, 5, 4, 1, 4, 7, 10, 14, 1, 4, 8>>, 18),
    deposit |-> Double(<<1, 4, 10, 13, 12, 7, 10, 14, 1, 4, 7, 10, 14, 1>>, 13)],
   [totalPrice |-> Double(<<1, 2, 4, 15, 8, 0, 0, 0, 0, 0, 0, 0, 0, 0>>, 18),
    deposit |-> Double(<<1, 14, 8, 4, 8, 0, 0, 0, 0, 0, 0, 0, 0, 0>>, 18)],
   [totalPrice |-> Double(<<1, 3, 8, 8, 0, 0, 0, 0, 0, 0, 0, 0, 0, 0>>, 14),
    deposit |-> Zero]}

PaymentIds == 1 .. Len(payments)
PaymentsOf(bookingId) == { i \in PaymentIds : payments[i].bookingId = bookingId }

PayFrame ==
  UNCHANGED <<now, vehicles, bookings, trips, started, calc, notifications, listening,
              sent, userSockets, fcmInitialized, fcmTokens, clients>>

\* findUnique with the booking's payment, the four checks and the fees; the
\* handler is then suspended at payment.create.
createPaymentCall(userId, bookingId, method) ==
  /\ NoEmit
  /\ PayFrame
  /\ UNCHANGED payments
  /\ IF bookingId \notin RowIds THEN Throw("NotFoundException")
     ELSE IF bookings[bookingId].renterId # userId THEN Throw("BadRequestException")
     ELSE IF PaymentsOf(bookingId) # {} THEN Throw("BadRequestException")
     ELSE IF bookings[bookingId].status # "CONFIRMED" THEN Throw("BadRequestException")
     ELSE LET totalAmount == Plus(bookings[bookingId].totalPrice,
                                  bookings[bookingId].deposit)
              platformFee == TimesD(totalAmount, PLATFORM_FEE_RATE)
              ownerAmount == Minus(totalAmount, platformFee)
          IN  Suspend([op |-> "createPayment", pc |-> "create", userId |-> userId,
                       id |-> bookingId, method |-> method,
                       receiverId |-> bookings[bookingId].ownerId,
                       amount |-> totalAmount, platformFee |-> platformFee,
                       ownerAmount |-> ownerAmount])

PaymentRow(c) ==
  [bookingId |-> c.id, payerId |-> c.userId, receiverId |-> c.receiverId,
   amount |-> c.amount, platformFee |-> c.platformFee, ownerAmount |-> c.ownerAmount,
   method |-> c.method, status |-> "PENDING", paidAt |-> Unset]

\* The insert without the unique index payments_booking_id_key.
createPaymentCreateNoUnique(c) ==
  /\ c \in Suspended /\ c.op = "createPayment" /\ c.pc = "create"
  /\ NoEmit
  /\ PayFrame
  /\ payments' = Append(payments, PaymentRow(c))
  /\ Finish(c, "ok")

\* payment.create fails on the unique index payments_booking_id_key when the
\* booking has a payment.
createPaymentCreate(c) ==
  /\ c \in Suspended /\ c.op = "createPayment" /\ c.pc = "create"
  /\ NoEmit
  /\ PayFrame
  /\ IF PaymentsOf(c.id) # {}
       THEN /\ Finish(c, "UniqueConstraintViolation")
            /\ UNCHANGED payments
       ELSE /\ payments' = Append(payments, PaymentRow(c))
            /\ Finish(c, "ok")

simulatePaymentSuccessCall(paymentId) ==
  /\ NoEmit
  /\ PayFrame
  /\ UNCHANGED payments
  /\ IF paymentId \notin PaymentIds THEN Throw("NotFoundException")
     ELSE Suspend([op |-> "simulatePaymentSuccess", pc |-> "update", id |-> paymentId])

simulatePaymentSuccessUpdate(c) ==
  /\ c \in Suspended /\ c.op = "simulatePaymentSuccess" /\ c.pc = "update"
  /\ NoEmit
  /\ PayFrame
  /\ payments' = [payments EXCEPT ![c.id].status = "COMPLETED",
                                  ![c.id].paidAt = Value(Date)]
  /\ Finish(c, "ok")

\* A booking of the renter at fare `fare`.
BookedAt(fare, startTime, status) ==
  [renterId |-> "u2", ownerId |-> "u1", vehicleId |-> "v1",
   startTime |-> startTime, endTime |-> startTime + 1,
   totalPrice |-> fare.totalPrice, deposit |-> fare.deposit,
   status |-> status, cancellationReason |-> Unset,
   confirmedAt |-> IF status = "CONFIRMED" THEN Value(Date) ELSE Unset,
   cancelledAt |-> Unset]

\* Two bookings of the renter at one of the fares, the first awaiting the
\* owner's approval and the second approved.
PayInit ==
  /\ now = 0
  /\ vehicles = [v \in VehicleIds |->
                   [ownerId |-> vehicleOwner[v], status |-> "AVAILABLE",
                    isAvailable |-> TRUE, totalTrips |-> 0]]
  /\ \E fare \in Fares :
       bookings = <<BookedAt(fare, 0, "PENDING"), BookedAt(fare, 2, "CONFIRMED")>>
  /\ trips = <<>>
  /\ payments = <<>>
  /\ inflight = EmptyBag
  /\ emitted = {}
  /\ ret = NoRet
  /\ serial = TRUE
  /\ started = {}
  /\ calc = NoCalc
  /\ FanOff

\* Payments made and settled, bookings approved and cancelled, up to
\* MaxInflight handlers in flight.
PayNext ==
  \/ \E u \in Users, b \in 1 .. MaxBookings + 1, m \in PaymentMethods :
       NumInflight < MaxInflight /\ createPaymentCall(u, b, m)
  \/ \E c \in Suspended : createPaymentCreate(c)
  \/ \E i \in 1 .. MaxBookings :
       NumInflight < MaxInflight /\ simulatePaymentSuccessCall(i)
  \/ \E c \in Suspended : simulatePaymentSuccessUpdate(c)
  \/ \E u \in Users, b \in BookingIds :
       NumInflight < MaxInflight /\ approveBookingCall(u, b) /\ Quiet
  \/ \E c \in Suspended : approveBookingFindMany(c) /\ Quiet
  \/ \E c \in Suspended : approveBookingUpdate(c) /\ Quiet
  \/ \E u \in Users, b \in BookingIds, r \in Reasons :
       NumInflight < MaxInflight /\ cancelBookingCall(u, b, r) /\ Quiet
  \/ \E c \in Suspended : cancelBookingUpdate(c) /\ Quiet

PaySpec == PayInit /\ [][PayNext]_vars

\* ------------------------------------------------------------- vehicles
VehicleStatuses ==
  {"PENDING_APPROVAL", "AVAILABLE", "RENTED", "MAINTENANCE", "UNAVAILABLE",
   "REJECTED", "LOCKED"}

UserRoles == {"OWNER", "ADMIN"}

allowedOwnerStatuses == {"AVAILABLE", "MAINTENANCE"}
restrictedStatuses == {"PENDING_APPROVAL", "REJECTED", "LOCKED"}

\* UpdateVehicleDto: of its optional fields, the status.
UpdateVehicleDtos ==
  {[status |-> Unset]} \cup {[status |-> Value(st)] : st \in VehicleStatuses}

VehicleFrame ==
  UNCHANGED <<now, started, calc, notifications, listening, sent, userSockets,
              fcmInitialized, fcmTokens, clients>>

\* updateVehicle without the check of the vehicle's current status.
updateVehicleCallAnyCurrent(vehicleId, userId, userRole, dto) ==
  /\ NoEmit
  /\ VehicleFrame
  /\ UNCHANGED <<vehicles, bookings, trips, payments>>
  /\ IF vehicleId \notin DOMAIN vehicles THEN Throw("NotFoundException")
     ELSE IF vehicles[vehicleId].ownerId # userId /\ userRole # "ADMIN"
       THEN Throw("ForbiddenException")
     ELSE IF /\ dto.status # Unset /\ userRole # "ADMIN"
             /\ dto.status[1] \notin allowedOwnerStatuses
       THEN Throw("BadRequestException")
     ELSE Suspend([op |-> "updateVehicle", pc |-> "update", userId |-> userId,
                   id |-> vehicleId, userRole |-> userRole, dto |-> dto])

\* findUnique, the ownership check and, for a status sent by somebody who is
\* not an admin, the three status checks; the handler is then suspended at
\* vehicle.update.
updateVehicleCall(vehicleId, userId, userRole, dto) ==
  /\ NoEmit
  /\ VehicleFrame
  /\ UNCHANGED <<vehicles, bookings, trips, payments>>
  /\ IF vehicleId \notin DOMAIN vehicles THEN Throw("NotFoundException")
     ELSE IF vehicles[vehicleId].ownerId # userId /\ userRole # "ADMIN"
       THEN Throw("ForbiddenException")
     ELSE IF /\ dto.status # Unset /\ userRole # "ADMIN"
             /\ \/ dto.status[1] \notin allowedOwnerStatuses
                \/ vehicles[vehicleId].status \in restrictedStatuses
                \/ /\ vehicles[vehicleId].status = "RENTED"
                   /\ dto.status[1] = "AVAILABLE"
       THEN Throw("BadRequestException")
     ELSE Suspend([op |-> "updateVehicle", pc |-> "update", userId |-> userId,
                   id |-> vehicleId, userRole |-> userRole, dto |-> dto])

updateVehicleUpdate(c) ==
  /\ c \in Suspended /\ c.op = "updateVehicle" /\ c.pc = "update"
  /\ NoEmit
  /\ VehicleFrame
  /\ UNCHANGED <<bookings, trips, payments>>
  /\ vehicles' = IF c.dto.status = Unset THEN vehicles
                 ELSE [vehicles EXCEPT ![c.id].status = c.dto.status[1]]
  /\ Finish(c, "ok")

deleteVehicleCall(vehicleId, userId, userRole) ==
  /\ NoEmit
  /\ VehicleFrame
  /\ UNCHANGED <<vehicles, bookings, trips, payments>>
  /\ IF vehicleId \notin DOMAIN vehicles THEN Throw("NotFoundException")
     ELSE IF vehicles[vehicleId].ownerId # userId /\ userRole # "ADMIN"
       THEN Throw("ForbiddenException")
     ELSE IF vehicles[vehicleId].status = "RENTED" THEN Throw("BadRequestException")
     ELSE Suspend([op |-> "deleteVehicle", pc |-> "delete", userId |-> userId,
                   id |-> vehicleId, userRole |-> userRole])

\* vehicle.delete: the foreign keys bookings_vehicle_id_fkey,
\* trips_vehicle_id_fkey, trips_booking_id_fkey and payments_booking_id_fkey
\* are ON DELETE CASCADE, so the vehicle's bookings go with it, and their trips
\* and payments. (The id of a row is its position: the rows that go are all
\* the rows, VehicleIds having one vehicle.)
deleteVehicleDelete(c) ==
  /\ c \in Suspended /\ c.op = "deleteVehicle" /\ c.pc = "delete"
  /\ NoEmit
  /\ VehicleFrame
  /\ vehicles' = [v \in DOMAIN vehicles \ {c.id} |-> vehicles[v]]
  /\ bookings' = SelectSeq(bookings, LAMBDA row : row.vehicleId # c.id)
  /\ trips' = SelectSeq(trips, LAMBDA row :
                 row.vehicleId # c.id /\ bookings[row.bookingId].vehicleId # c.id)
  /\ payments' = SelectSeq(payments, LAMBDA row :
                    bookings[row.bookingId].vehicleId # c.id)
  /\ Finish(c, "ok")

\* The vehicle as registerVehicle created it, no booking yet.
VehicleInit ==
  /\ now = 0
  /\ vehicles = [v \in VehicleIds |->
                   [ownerId |-> vehicleOwner[v], status |-> "PENDING_APPROVAL",
                    isAvailable |-> TRUE, totalTrips |-> 0]]
  /\ bookings = <<>>
  /\ trips = <<>>
  /\ payments = <<>>
  /\ inflight = EmptyBag
  /\ emitted = {}
  /\ ret = NoRet
  /\ serial = TRUE
  /\ started = {}
  /\ calc = NoCalc
  /\ FanOff

\* Bookings and trips one request at a time, and the vehicle updated and
\* deleted by its owner, by another user and by an admin.
VehicleNext ==
  \/ Call(Times, {NoDto}, 1)
  \/ Step
  \/ (Tick(MaxTime) /\ Quiet)
  \/ \E v \in VehicleIds \cup {NoVehicle}, u \in Users, role \in UserRoles,
        dto \in UpdateVehicleDtos :
       NumInflight = 0 /\ updateVehicleCall(v, u, role, dto)
  \/ \E c \in Suspended : updateVehicleUpdate(c)
  \/ \E v \in VehicleIds, u \in Users, role \in UserRoles :
       NumInflight = 0 /\ deleteVehicleCall(v, u, role)
  \/ \E c \in Suspended : deleteVehicleDelete(c)

VehicleSpec == VehicleInit /\ [][VehicleNext]_vars

\* ---------------------------------------------------------- reportIssue
\* reportIssue without the status check.
reportIssueCallAnyStatus(userId, tripId, issueDescription) ==
  /\ NoEmit
  /\ UNCHANGED <<now, vehicles, bookings, trips, started, calc>>
  /\ IF tripId \notin TripRowIds THEN Throw("NotFoundException")
     ELSE IF trips[tripId].renterId # userId THEN Throw("BadRequestException")
     ELSE Suspend([Cont("reportIssue", "update", userId, tripId,
                        trips[tripId].vehicleId, 0, 0, 0)
                     EXCEPT !.dto = [hasIssues |-> Unset,
                                     issueDescription |-> Value(issueDescription)]])

\* findUnique and the three checks; the handler is then suspended at
\* trip.update.
reportIssueCall(userId, tripId, issueDescription) ==
  /\ NoEmit
  /\ UNCHANGED <<now, vehicles, bookings, trips, started, calc>>
  /\ IF tripId \notin TripRowIds THEN Throw("NotFoundException")
     ELSE IF trips[tripId].renterId # userId THEN Throw("BadRequestException")
     ELSE IF trips[tripId].status # "ONGOING" THEN Throw("BadRequestException")
     ELSE Suspend([Cont("reportIssue", "update", userId, tripId,
                        trips[tripId].vehicleId, 0, 0, 0)
                     EXCEPT !.dto = [hasIssues |-> Unset,
                                     issueDescription |-> Value(issueDescription)]])

reportIssueUpdate(c) ==
  /\ c \in Suspended /\ c.op = "reportIssue" /\ c.pc = "update"
  /\ NoEmit
  /\ trips' = [trips EXCEPT ![c.id].hasIssues = TRUE,
                            ![c.id].issueDescription = c.dto.issueDescription]
  /\ Finish(c, "ok")
  /\ UNCHANGED <<now, vehicles, bookings, started, calc>>

\* An approved booking of the renter whose window has begun, no trip yet.
TripInit ==
  /\ now = 0
  /\ vehicles = [v \in VehicleIds |->
                   [ownerId |-> vehicleOwner[v], status |-> "AVAILABLE",
                    isAvailable |-> TRUE, totalTrips |-> 0]]
  /\ bookings = <<BookedAt(CHOOSE fare \in Fares : fare.deposit = Zero, 0, "CONFIRMED")>>
  /\ trips = <<>>
  /\ payments = <<>>
  /\ inflight = EmptyBag
  /\ emitted = {}
  /\ ret = NoRet
  /\ serial = TRUE
  /\ started = {}
  /\ calc = NoCalc
  /\ FanOff

\* Trips started, reported on and ended, with or without an issue report in
\* the endTrip request, up to MaxInflight handlers in flight.
TripNext ==
  \/ \E u \in Users, b \in BookingIds, lat \in Latitudes :
       NumInflight < MaxInflight /\ startTripCall(u, b, lat) /\ Quiet
  \/ \E c \in Suspended : startTripTransaction(c) /\ Quiet
  \/ \E u \in Users, t \in TripIds, dto \in EndTripDtos :
       NumInflight < MaxInflight /\ endTripCall(u, t, dto) /\ Quiet
  \/ \E c \in Suspended : endTripTransaction(c) /\ Quiet
  \/ \E u \in Users, t \in TripIds, i \in Issues :
       NumInflight < MaxInflight /\ reportIssueCall(u, t, i) /\ Quiet
  \/ \E c \in Suspended : reportIssueUpdate(c) /\ Quiet

TripSpec == TripInit /\ [][TripNext]_vars

\* ------------------------------------------------------- presence registry
Sockets == {"s1", "s2"}

\* What a handshake carries: no token, a token that does not verify, a token
\* whose payload names no user, or the token of a user.
NoToken == "none"
BadToken == "invalid"
NoSubToken == "nosub"
Tokens == {NoToken, BadToken, NoSubToken} \cup Users

GatewayFrame ==
  UNCHANGED <<now, vehicles, bookings, trips, payments, started, calc, notifications,
              listening, sent, fcmInitialized, fcmTokens>>

\* handleDisconnect: the socket leaves the set of the user its data names, and
\* the user's entry goes with its last socket; nothing for a socket whose data
\* names no user.
handleDisconnect(registry, client, id) ==
  IF client.userId = Unset \/ client.userId[1] \notin DOMAIN registry THEN registry
  ELSE LET userId == client.userId[1]
           userSocketSet == registry[userId] \ {id}
       IN  IF userSocketSet = {}
             THEN [u \in DOMAIN registry \ {userId} |-> registry[u]]
             ELSE [registry EXCEPT ![userId] = userSocketSet]

\* client.disconnect() by the server: a connected socket closes and its
\* disconnect handler runs; nothing on a socket already closed.
Disconnected(id) ==
  IF clients[id].connected
    THEN /\ clients' = [clients EXCEPT ![id].connected = FALSE]
         /\ userSockets' = handleDisconnect(userSockets, clients[id], id)
    ELSE UNCHANGED <<clients, userSockets>>

\* A socket connects: handleConnection runs up to the await of verifyAsync,
\* or refuses the socket that has no token.
handleConnectionCall(id, token) ==
  /\ id \notin DOMAIN clients
  /\ NoEmit
  /\ GatewayFrame
  /\ IF token = NoToken
       THEN /\ clients' = clients @@ (id :> [connected |-> FALSE, userId |-> Unset])
            /\ UNCHANGED userSockets
            /\ Throw("disconnect")
       ELSE /\ clients' = clients @@ (id :> [connected |-> TRUE, userId |-> Unset])
            /\ UNCHANGED userSockets
            /\ Suspend([op |-> "handleConnection", pc |-> "verifyAsync", id |-> id,
                        token |-> token])

\* verifyAsync has settled: a token that does not verify or names no user
\* closes the socket; otherwise the socket id enters the user's set and the
\* socket's data gets the user.
handleConnectionVerified(c) ==
  /\ c \in Suspended /\ c.op = "handleConnection" /\ c.pc = "verifyAsync"
  /\ NoEmit
  /\ GatewayFrame
  /\ IF c.token \in {BadToken, NoSubToken}
       THEN Disconnected(c.id) /\ Finish(c, "disconnect")
       ELSE /\ userSockets' =
                 IF c.token \in DOMAIN userSockets
                   THEN [userSockets EXCEPT ![c.token] = @ \cup {c.id}]
                   ELSE userSockets @@ (c.token :> {c.id})
            /\ clients' = [clients EXCEPT ![c.id].userId = Value(c.token)]
            /\ Finish(c, "ok")

\* The client side closes a connected socket: handleDisconnect runs.
disconnect(id) ==
  /\ id \in DOMAIN clients
  /\ clients[id].connected
  /\ NoEmit
  /\ GatewayFrame
  /\ Disconnected(id)
  /\ ret' = NoRet
  /\ UNCHANGED <<inflight, serial>>

GatewayNext ==
  \/ \E id \in Sockets, token \in Tokens : handleConnectionCall(id, token)
  \/ \E c \in Suspended : handleConnectionVerified(c)
  \/ \E id \in Sockets : disconnect(id)

GatewaySpec == Init /\ [][GatewayNext]_vars

\* ------------------------------------------------------------ getBookingById
\* An account that owns no vehicle and has made no booking.
Outsider == "u3"
Callers == Users \cup {Outsider}

\* What the HTTP layer makes of a thrown NotFoundException(message).
NotFoundException(message) ==
  [statusCode |-> 404, error |-> "Not Found", message |-> message, booking |-> Unset]

\* getBookingById with the usual answer to a caller without access.
getBookingByIdForbidden(rows, bookingId, userId) ==
  IF bookingId \notin 1 .. Len(rows)
    THEN NotFoundException("Booking not found")
  ELSE IF rows[bookingId].renterId # userId /\ rows[bookingId].ownerId # userId
    THEN [statusCode |-> 403, error |-> "Forbidden",
          message |-> "You do not have access to this booking", booking |-> Unset]
  ELSE [statusCode |-> 200, error |-> "", message |-> "",
        booking |-> Value(fromPrisma(bookingId, rows[bookingId]))]

\* The response to getBookingById(bookingId, userId) on the bookings `rows`.
getBookingById(rows, bookingId, userId) ==
  IF bookingId \notin 1 .. Len(rows)
    THEN NotFoundException("Booking not found")
  ELSE IF rows[bookingId].renterId # userId /\ rows[bookingId].ownerId # userId
    THEN NotFoundException("Booking not found")
  ELSE [statusCode |-> 200, error |-> "", message |-> "",
        booking |-> Value(fromPrisma(bookingId, rows[bookingId]))]

\* The endpoint: one read, and the response goes to the caller.
getBookingByIdCall(userId, bookingId) ==
  /\ LET response == getBookingById(bookings, bookingId, userId)
     IN  ret' = [call |-> [op |-> "getBookingById", userId |-> userId, id |-> bookingId],
                 res |-> IF response.statusCode = 200 THEN "ok" ELSE "NotFoundException",
                 response |-> response]
  /\ NoEmit
  /\ UNCHANGED <<now, vehicles, bookings, trips, inflight, serial, started, calc>>

\* The engine served one call at a time, and bookings looked up by anybody,
\* under ids that exist and under one that does not.
AccessNext ==
  \/ Call(Times, {NoDto}, 1)
  \/ Step
  \/ (Tick(MaxTime) /\ Quiet)
  \/ \E u \in Callers, b \in 1 .. MaxBookings + 1 : getBookingByIdCall(u, b) /\ Quiet

AccessSpec == Init /\ [][AccessNext]_vars

\* ================================================================ claims
\* Two half-open windows [startTime, endTime) share an instant.
Intersects(a, b) == a.startTime < b.endTime /\ b.startTime < a.endTime

SameVehicle(i, j) == bookings[i].vehicleId = bookings[j].vehicleId

\* Another booking of i's vehicle with a status in S whose window meets i's.
Rivals(i, S) ==
  { j \in RowIds : /\ j # i
                   /\ SameVehicle(i, j)
                   /\ bookings[j].status \in S
                   /\ Intersects(bookings[j], bookings[i]) }

StoreUnchanged == UNCHANGED <<vehicles, bookings, trips>>

\* C1: in every reachable state, whatever the interleaving of the store
\* accesses of concurrent approveBooking calls, no two bookings of one vehicle
\* that are CONFIRMED or ONGOING have overlapping windows.
C1_NoConfirmedOverlap ==
  \A i \in RowIds :
    bookings[i].status \in ConfirmedStatuses => Rivals(i, ConfirmedStatuses) = {}

\* C2: every change of a booking's status follows an edge of the lifecycle,
\* and a COMPLETED, CANCELLED or REJECTED booking never changes status.
StatusEdges ==
  { <<"PENDING", "CONFIRMED">>, <<"PENDING", "REJECTED">>,
    <<"PENDING", "CANCELLED">>, <<"CONFIRMED", "CANCELLED">>,
    <<"CONFIRMED", "ONGOING">>, <<"ONGOING", "COMPLETED">> }

C2_StatusFollowsEdges ==
  [][ \A i \in RowIds :
        bookings'[i].status # bookings[i].status =>
          <<bookings[i].status, bookings'[i].status>> \in StatusEdges ]_vars

\* C3: when approveBooking(A) scans for conflicts while another booking of
\* A's vehicle is CONFIRMED or ONGOING with a window meeting A's, the call
\* fails with BadRequestException, writes nothing (A keeps its status and its
\* unset confirmedAt), emits no event and is over; so does every repetition.
C3_ApproveFailsOnConflict ==
  [][ \A c \in Suspended :
        (approveBookingFindMany(c) /\ Rivals(c.id, ConfirmedStatuses) # {}) =>
          /\ ret' = Ret(c, "BadRequestException")
          /\ StoreUnchanged
          /\ emitted' = {}
          /\ inflight' = inflight (-) SetToBag({c}) ]_vars

\* A PENDING booking whose approval has just failed on an active rival.
C3_Witness ==
  /\ ret.call.op = "approveBooking"
  /\ ret.res = "BadRequestException"
  /\ bookings[ret.call.id].status = "PENDING"
  /\ bookings[ret.call.id].confirmedAt = Unset
  /\ Rivals(ret.call.id, ConfirmedStatuses) # {}

\* C4: createBooking's conflict scan, for a requested window with
\* startTime < endTime, throws ConflictException (and the call is over with no
\* booking persisted) exactly when a PENDING, CONFIRMED or ONGOING booking of
\* the vehicle has a window sharing an instant with the requested one;
\* otherwise the call goes on to insert.  Windows that only touch, and
\* COMPLETED, CANCELLED or REJECTED bookings, are no conflict.
Occupants(c) ==
  { i \in RowIds : /\ bookings[i].vehicleId = c.vehicleId
                   /\ bookings[i].status \in ActiveStatuses
                   /\ Intersects(bookings[i], c) }

C4_ScanConflictIffOverlap ==
  [][ \A c \in Suspended :
        createBookingFindMany(c) =>
          /\ c.startTime < c.endTime
          /\ StoreUnchanged
          /\ IF Occupants(c) # {}
               THEN /\ ret' = Ret(c, "ConflictException")
                    /\ inflight' = inflight (-) SetToBag({c})
               ELSE /\ ret' = NoRet
                    /\ [c EXCEPT !.pc = "create"] \in BagToSet(inflight') ]_vars

\* The spec's scenario, in clock units: a create for [1,3) has just been
\* refused while a CONFIRMED booking holds [0,2).
C4_Witness ==
  /\ ret.call.op = "createBooking"
  /\ ret.res = "ConflictException"
  /\ ret.call.startTime = 1 /\ ret.call.endTime = 3
  /\ \E i \in RowIds : /\ bookings[i].status = "CONFIRMED"
                        /\ bookings[i].vehicleId = ret.call.vehicleId
                        /\ bookings[i].startTime = 0 /\ bookings[i].endTime = 2

\* C5 (as claimed): in every reachable state, concurrent createBooking calls
\* included, no two PENDING, CONFIRMED or ONGOING bookings of one vehicle have
\* overlapping windows.
C5_NoActiveOverlap ==
  \A i \in RowIds :
    bookings[i].status \in ActiveStatuses => Rivals(i, ActiveStatuses) = {}

\* C5 (amended): as long as the calls have run one at a time (none started
\* while another was in flight), no two PENDING, CONFIRMED or ONGOING bookings
\* of one vehicle have overlapping windows.
C5_SerialNoActiveOverlap ==
  serial =>
    \A i \in RowIds :
      bookings[i].status \in ActiveStatuses => Rivals(i, ActiveStatuses) = {}

\* Calls have run one at a time and a create has just succeeded next to
\* another active booking of the vehicle.
C5_Witness ==
  /\ serial
  /\ ret.call.op = "createBooking" /\ ret.res = "ok"
  /\ \E i, j \in RowIds :
       /\ i # j /\ SameVehicle(i, j)
       /\ bookings[i].status \in ActiveStatuses
       /\ bookings[j].status \in ActiveStatuses

\* C6: the price is n * pricePerDay, n the least number of whole days covering
\* the window, when the window is 24 hours or longer, and n * pricePerHour, n
\* the least number of whole hours covering it, otherwise; exactly 24h costs
\* one pricePerDay, 23h59m costs 24 pricePerHour, and at 20000 per hour and
\* 300000 per day 4h cost 80000 and 24h cost 300000.
Covers(n, unit, durationMs) == (n - 1) * unit < durationMs /\ durationMs <= n * unit

C7_TripIffOngoingOrCompleted ==
  \A i \in RowIds :
    (TripsOf(i) # {}) <=> (bookings[i].status \in {"ONGOING", "COMPLETED"})

\* C8: an endTrip call succeeds only on the trip of a booking for which a
\* startTrip call has succeeded; a COMPLETED trip stays COMPLETED; and an
\* endTrip call on a trip that is COMPLETED throws BadRequestException and
\* changes nothing.
C8_EndTripAfterStartAndOnce ==
  /\ [](ret.call.op = "endTrip" /\ ret.res = "ok" =>
          /\ ret.call.id \in TripRowIds
          /\ trips[ret.call.id].bookingId \in started)
  /\ [][ \A t \in TripRowIds :
           trips[t].status = "COMPLETED" =>
             /\ trips'[t].status = "COMPLETED"
             /\ \A u \in Users, dto \in EndTripDtos :
                  endTripCall(u, t, dto) =>
                    /\ ret' = Ret(NoCall, "BadRequestException")
                    /\ StoreUnchanged
                    /\ inflight' = inflight ]_vars

\* A trip was started and ended, and a further call has just been refused.
C8_Witness ==
  /\ \E t \in TripRowIds : /\ trips[t].status = "COMPLETED"
                            /\ trips[t].bookingId \in started
  /\ ret = Ret(NoCall, "BadRequestException")

\* C9: in every reachable state a vehicle's totalTrips is its initial value, 0,
\* plus the number of its COMPLETED trips.
C9_TotalTripsCountsCompleted ==
  \A v \in DOMAIN vehicles :
    vehicles[v].totalTrips =
      Cardinality({ t \in TripRowIds : /\ trips[t].vehicleId = v
                                       /\ trips[t].status = "COMPLETED" })

\* C10: no booking ever has two trips; trips are never removed or moved to
\* another booking; a startTrip transaction succeeds only as the one that
\* creates the booking's first trip, and one that finds a trip fails and
\* writes nothing.
C10_AtMostOneTripPerBooking ==
  /\ [](\A b \in RowIds : Cardinality(TripsOf(b)) <= 1)
  /\ [][ /\ \A t \in TripRowIds :
             t \in 1 .. Len(trips') /\ trips'[t].bookingId = trips[t].bookingId
         /\ \A c \in Suspended :
             startTripTransaction(c) =>
               IF TripsOf(c.id) = {}
                 THEN /\ ret' = Ret(c, "ok")
                      /\ Len(trips') = Len(trips) + 1
                      /\ trips'[Len(trips')].bookingId = c.id
                 ELSE /\ ret' = Ret(c, "UniqueConstraintViolation")
                      /\ StoreUnchanged ]_vars

\* One startTrip call created the booking's trip and a concurrent one has
\* just failed on the unique index.
C10_Witness ==
  /\ ret.call.op = "startTrip"
  /\ ret.res = "UniqueConstraintViolation"
  /\ Cardinality(TripsOf(ret.call.id)) = 1

\* What a call that threw before its first store write leaves behind.
Refused(e) ==
  /\ ret' = Ret(NoCall, e)
  /\ StoreUnchanged
  /\ emitted' = {}
  /\ inflight' = inflight

\* C11: a startTrip call that finds no such booking throws NotFoundException,
\* and one that finds the caller is not the renter, the status is not
\* CONFIRMED, a trip exists or the start time is still ahead throws
\* BadRequestException; a transaction that finds a trip fails on the unique
\* index.  In each case no trip is created and no booking changes.
C11_StartTripRefused ==
  [][ /\ \A u \in Users, b \in BookingIds, lat \in Latitudes :
           startTripCall(u, b, lat) =>
             /\ b \notin RowIds => Refused("NotFoundException")
             /\ (/\ b \in RowIds
                 /\ \/ bookings[b].renterId # u
                    \/ bookings[b].status # "CONFIRMED"
                    \/ TripsOf(b) # {}
                    \/ now < bookings[b].startTime)
                  => Refused("BadRequestException")
      /\ \A c \in Suspended :
           (startTripTransaction(c) /\ TripsOf(c.id) # {}) =>
             /\ ret' = Ret(c, "UniqueConstraintViolation")
             /\ StoreUnchanged ]_vars

\* A CONFIRMED booking whose start time is still ahead, no trip, and a call
\* just refused.
C11_Witness ==
  /\ ret = Ret(NoCall, "BadRequestException")
  /\ trips = <<>>
  /\ \E b \in RowIds : /\ bookings[b].status = "CONFIRMED"
                        /\ now < bookings[b].startTime

\* C12: a rejectBooking call goes on to its write only when the caller is the
\* owner and the booking is PENDING, and is refused otherwise; the write sets
\* REJECTED, cancelledAt and the reason and the call returns; a call on a
\* REJECTED booking throws BadRequestException and changes nothing.
C12_RejectOnlyPendingByOwner ==
  [][ /\ \A u \in Users, b \in BookingIds, r \in Reasons :
           rejectBookingCall(u, b, r) =>
             /\ b \notin RowIds => Refused("NotFoundException")
             /\ (b \in RowIds /\ (bookings[b].ownerId # u
                                   \/ bookings[b].status # "PENDING"))
                  => Refused("BadRequestException")
             /\ (b \in RowIds /\ bookings[b].status = "REJECTED")
                  => Refused("BadRequestException")
             /\ (b \in RowIds /\ bookings[b].ownerId = u
                               /\ bookings[b].status = "PENDING")
                  => /\ ret' = NoRet /\ StoreUnchanged /\ emitted' = {}
                     /\ BagCardinality(inflight') = NumInflight + 1
      /\ \A c \in Suspended :
           rejectBookingUpdate(c) =>
             /\ c.userId = bookings[c.id].ownerId
             /\ ret' = Ret(c, "ok")
             /\ bookings'[c.id].status = "REJECTED"
             /\ bookings'[c.id].cancelledAt # Unset
             /\ bookings'[c.id].cancellationReason = Value(c.reason) ]_vars

\* A booking was rejected, reason and time recorded, and a further call has
\* just been refused.
C12_Witness ==
  /\ ret = Ret(NoCall, "BadRequestException")
  /\ \E b \in RowIds : /\ bookings[b].status = "REJECTED"
                        /\ bookings[b].cancelledAt # Unset
                        /\ bookings[b].cancellationReason \in {Value(r) : r \in Reasons}

\* C13: a cancelBooking call goes on to its write only when the caller is the
\* renter and the booking is PENDING or CONFIRMED; for another caller or a
\* booking that is ONGOING, COMPLETED, CANCELLED or REJECTED it throws, leaves
\* the store unchanged and emits nothing; the write sets CANCELLED,
\* cancelledAt and the reason.
C13_CancelOnlyOpenByRenter ==
  [][ /\ \A u \in Users, b \in BookingIds, r \in Reasons :
           cancelBookingCall(u, b, r) =>
             /\ b \notin RowIds => Refused("NotFoundException")
             /\ (b \in RowIds /\ (bookings[b].renterId # u
                                   \/ bookings[b].status \in
                                        {"ONGOING", "COMPLETED", "CANCELLED", "REJECTED"}))
                  => Refused("BadRequestException")
             /\ (b \in RowIds /\ bookings[b].renterId = u
                               /\ bookings[b].status \in {"PENDING", "CONFIRMED"})
                  => /\ ret' = NoRet /\ StoreUnchanged /\ emitted' = {}
                     /\ BagCardinality(inflight') = NumInflight + 1
      /\ \A c \in Suspended :
           cancelBookingUpdate(c) =>
             /\ c.userId = bookings[c.id].renterId
             /\ ret' = Ret(c, "ok")
             /\ bookings'[c.id].status = "CANCELLED"
             /\ bookings'[c.id].cancelledAt # Unset
             /\ bookings'[c.id].cancellationReason = Value(c.reason) ]_vars

\* The only booking is ONGOING, its trip running, and a call has just been
\* refused with nothing emitted.
C13_Witness ==
  /\ ret = Ret(NoCall, "BadRequestException")
  /\ emitted = {}
  /\ Len(bookings) = 1 /\ bookings[1].status = "ONGOING"
  /\ bookings[1].cancelledAt = Unset

\* C14: a createBooking call with startTime >= endTime, startTime before now,
\* an unknown vehicle, the caller as owner, or a vehicle that is not both
\* isAvailable and AVAILABLE throws, persists nothing and emits nothing; every
\* stored booking has startTime < endTime and a renter other than its owner,
\* and every booking is inserted as PENDING.
C14_CreateRefusedOrWellFormed ==
  /\ [](\A i \in RowIds : /\ bookings[i].startTime < bookings[i].endTime
                           /\ bookings[i].renterId # bookings[i].ownerId)
  /\ [][ /\ \A u \in Users, v \in VehicleIds \cup {NoVehicle},
               s \in WideTimes, e \in WideTimes :
             createBookingCall(u, v, s, e) =>
               /\ (s >= e \/ s < now) => Refused("BadRequestException")
               /\ (s < e /\ s >= now /\ v \notin DOMAIN vehicles)
                    => Refused("NotFoundException")
               /\ (s < e /\ s >= now /\ v \in DOMAIN vehicles
                          /\ vehicles[v].ownerId = u)
                    => Refused("BadRequestException")
               /\ (s < e /\ s >= now /\ v \in DOMAIN vehicles
                          /\ vehicles[v].ownerId # u
                          /\ (~vehicles[v].isAvailable
                              \/ vehicles[v].status # "AVAILABLE"))
                    => Refused("ConflictException")
         /\ Len(bookings') # Len(bookings) =>
               /\ Len(bookings') = Len(bookings) + 1
               /\ bookings'[Len(bookings')].status = "PENDING" ]_vars

\* The vehicle is withdrawn and a create has just been refused for it.
C14_Witness ==
  /\ ret = Ret(NoCall, "ConflictException")
  /\ bookings = <<>>
  /\ emitted = {}
  /\ \E v \in DOMAIN vehicles :
       ~vehicles[v].isAvailable \/ vehicles[v].status # "AVAILABLE"

\* C15: a step that returns success from createBooking, approveBooking,
\* rejectBooking or cancelBooking emits one event, of the matching kind, with
\* the booking's id and its renter and owner ids, and the booking's row then
\* holds the written status; every other step emits nothing.
Writers ==
  [createBooking |-> [event |-> "booking.created", status |-> "PENDING"],
   approveBooking |-> [event |-> "booking.approved", status |-> "CONFIRMED"],
   rejectBooking |-> [event |-> "booking.rejected", status |-> "REJECTED"],
   cancelBooking |-> [event |-> "booking.cancelled", status |-> "CANCELLED"]]

C15_OneEventPerSuccess ==
  [][ IF ret'.res = "ok" /\ ret'.call.op \in DOMAIN Writers
        THEN LET b == IF ret'.call.op = "createBooking"
                        THEN Len(bookings') ELSE ret'.call.id
             IN  /\ Cardinality(emitted') = 1
                 /\ \A e \in emitted' :
                      /\ e.name = Writers[ret'.call.op].event
                      /\ e.bookingId = b
                      /\ e.renterId = bookings'[b].renterId
                      /\ e.ownerId = bookings'[b].ownerId
                 /\ bookings'[b].status = Writers[ret'.call.op].status
        ELSE emitted' = {} ]_vars

\* An approval has just succeeded and its event is out.
C15_Witness ==
  /\ ret.call.op = "approveBooking" /\ ret.res = "ok"
  /\ bookings[ret.call.id].status = "CONFIRMED"
  /\ emitted = {BookingApprovedEvent(ret.call.id, bookings[ret.call.id].renterId,
                                      bookings[ret.call.id].ownerId,
                                      bookings[ret.call.id].vehicleId)}

\* The events the handlers of FanoutSpec can emit.
FanEvents ==
  UNION { { BookingCreatedEvent(b, u, vehicleOwner[v], v),
            BookingApprovedEvent(b, u, vehicleOwner[v], v),
            BookingRejectedEvent(b, u, vehicleOwner[v], r),
            BookingCancelledEvent(b, u, vehicleOwner[v], r, "renter") }
          : b \in 1 .. MaxFanBookings,
            u \in { w \in Users : \A x \in VehicleIds : vehicleOwner[x] # w },
            v \in VehicleIds, r \in Reasons }

\* The party an event is news for, and the party it is from.
Counterpart(e) ==
  CASE e.name = "booking.created" -> e.ownerId
    [] e.name \in {"booking.approved", "booking.rejected"} -> e.renterId
    [] e.name = "booking.cancelled" ->
         IF e.cancelledBy = "renter" THEN e.ownerId ELSE e.renterId

OtherParty(e) == IF Counterpart(e) = e.ownerId THEN e.renterId ELSE e.ownerId

TypeOf ==
  [e \in DOMAIN HandlerOf |->
     CASE e = "booking.created" -> "BOOKING_REQUEST"
       [] e = "booking.approved" -> "BOOKING_CONFIRMED"
       [] e = "booking.rejected" -> "BOOKING_REJECTED"
       [] e = "booking.cancelled" -> "BOOKING_CANCELLED"]

\* The unread notification an event calls for.
NotificationOf(e) ==
  [receiverId |-> Counterpart(e), senderId |-> OtherParty(e), type |-> TypeOf[e.name],
   bookingId |-> e.bookingId, isRead |-> FALSE, readAt |-> Unset]

Handlers == { HandlerOf[e] : e \in DOMAIN HandlerOf }

\* Listener c's insert has completed in the step at hand.
Handled(c) ==
  c.op \in Handlers /\ CopiesIn(c, listening') < CopiesIn(c, listening)

\* C16: every emitted event starts one listener, and is eventually followed by
\* an unread notification for its booking, addressed to the counterpart (owner
\* for created, renter for approved and rejected, for cancelled the party that
\* did not cancel) and sent by the other party; a listener adds exactly that
\* one row, and rows are added in no other way.
C16_EventLeadsToNotification ==
  /\ \A e \in FanEvents :
       (e \in emitted) ~>
         (\E i \in 1 .. Len(notifications) : notifications[i] = NotificationOf(e))
  /\ [][ /\ \A e \in emitted' :
              LET l == Listener(HandlerOf[e.name], "create", e, {})
              IN  CopiesIn(l, listening') = CopiesIn(l, listening) + 1
         /\ \A c \in Listening :
              Handled(c) =>
                notifications' = Append(notifications, NotificationOf(c.event))
         /\ notifications' # notifications /\ Len(notifications') # Len(notifications)
              => \E c \in Listening : Handled(c) ]_vars

\* The renter cancelled, and the owner's notification has just been stored.
C16_Witness ==
  /\ ret.call.op = "handleBookingCancelled" /\ ret.res = "ok"
  /\ Len(notifications) > 0
  /\ LET n == notifications[Len(notifications)]
     IN  /\ n.receiverId = ret.call.event.ownerId
         /\ n.senderId = ret.call.event.renterId
         /\ n.bookingId = ret.call.event.bookingId
         /\ ~n.isRead

NewStatus ==
  [e \in DOMAIN HandlerOf |->
     CASE e = "booking.created" -> "PENDING"
       [] e = "booking.approved" -> "CONFIRMED"
       [] e = "booking.rejected" -> "REJECTED"
       [] e = "booking.cancelled" -> "CANCELLED"]

\* The step at hand puts the status change of event e on its booking's channel.
Broadcasts(e) ==
  \E m \in sent' : /\ m.room = <<"booking", e.bookingId>>
                   /\ m.event = "booking_status_changed"
                   /\ m.bookingId = e.bookingId
                   /\ m.status = NewStatus[e.name]
                   /\ m.reason = e.reason

\* C17 (as claimed): the listener of each of the four event kinds broadcasts
\* booking_status_changed on the booking's channel, with the new status and
\* the reason.
C17_EveryKindBroadcasts ==
  [][ \A c \in Listening : Handled(c) => Broadcasts(c.event) ]_vars

\* C17 (amended): the listeners of approved, rejected and cancelled broadcast
\* booking_status_changed on the booking's channel, with the new status and
\* the reason; the listener of created puts nothing on the booking's channel.
C17_DecisionsBroadcast ==
  [][ \A c \in Listening :
        Handled(c) =>
          IF c.event.name = "booking.created"
            THEN \A m \in sent' : m.room # <<"booking", c.event.bookingId>>
            ELSE Broadcasts(c.event) ]_vars

\* A rejection has just been broadcast with its reason.
C17_Witness ==
  /\ ret.call.op = "handleBookingRejected" /\ ret.res = "ok"
  /\ \E m \in sent : /\ m.room = <<"booking", ret.call.event.bookingId>>
                     /\ m.event = "booking_status_changed"
                     /\ m.status = "REJECTED"
                     /\ m.reason \in Reasons

\* C18: whatever the push side does, a listener's insert stores the row and
\* the listener ends normally; a step of a push send (no token, a send that
\* throws, tokens that failed) never ends in an unhandled rejection, never
\* touches a notification, a booking or a booking handler, and takes no
\* listener with it.
C18_PushFailureContained ==
  /\ [](ret.res # "unhandledRejection")
  /\ [][ /\ \A c \in Listening :
              Handled(c) => /\ Len(notifications') = Len(notifications) + 1
                            /\ ret' = Ret(c, "ok")
         /\ \A c \in Listening :
              (sendPushQueryRaw(c) \/ sendPushSend(c) \/ sendPushExecuteRaw(c)) =>
                /\ notifications' = notifications
                /\ StoreUnchanged
                /\ emitted' = {}
                /\ inflight' = inflight
                /\ ret'.res \in {"none", "ok", "logged"}
                /\ \A d \in Listening :
                     d.op \in Handlers => CopiesIn(d, listening') = CopiesIn(d, listening) ]_vars

\* A send has just thrown and been logged; the notification it was for is
\* stored.
C18_Witness ==
  /\ ret.call.op = "sendPushNotification" /\ ret.res = "logged"
  /\ \E i \in 1 .. Len(notifications) :
       /\ notifications[i].receiverId = ret.call.payload.receiverId
       /\ notifications[i].bookingId = ret.call.payload.bookingId
       /\ notifications[i].type = ret.call.payload.type

\* C19: markAllAsRead(u) leaves u with no unread notification; when u had
\* none it changes no row, readAt included; it never changes a row of
\* another user, and adds or removes none.
C19_MarkAllAsReadIdempotent ==
  [][ \A u \in Users :
        markAllAsRead(u) =>
          /\ Unread(notifications', u) = {}
          /\ getUnreadCount(u) = 0 => notifications' = notifications
          /\ Len(notifications') = Len(notifications)
          /\ \A i \in 1 .. Len(notifications) :
               notifications[i].receiverId # u => notifications'[i] = notifications[i] ]_vars

\* A call at time 1 has just returned, and a notification of the user still
\* carries the readAt of a call at time 0.
C19_Witness ==
  /\ ret.call.op = "markAllAsRead" /\ ret.res = "ok"
  /\ now = 1
  /\ getUnreadCount(ret.call.userId) = 0
  /\ \E i \in 1 .. Len(notifications) :
       /\ notifications[i].receiverId = ret.call.userId
       /\ notifications[i].isRead
       /\ notifications[i].readAt = Value(0)

\* Another account that could have made the bookings.
OtherRenter == "u3"

\* The store with the bookings in `of` made by OtherRenter instead.
RentedByOther(of) ==
  [i \in RowIds |-> IF i \in of THEN [bookings[i] EXCEPT !.renterId = OtherRenter]
                               ELSE bookings[i]]

\* C20: what getVehicleSchedule has just returned is also a result it can
\* return from any store that differs only in who rented the bookings.
C20_ScheduleHidesRenter ==
  (ret.call.op = "getVehicleSchedule" /\ ret.res = "ok") =>
    \A of \in SUBSET RowIds :
      ret.rows \in getVehicleSchedule(RentedByOther(of), ret.call.vehicleId, now)

\* C21: a caller who is neither renter nor owner of an existing booking gets
\* the very response a caller gets for an id that does not exist, a 404; the
\* renter and the owner get the booking.
C21_NotFoundHidesExistence ==
  ret.call.op = "getBookingById" /\ ret.call.id \in RowIds =>
    LET b == ret.call.id
        u == ret.call.userId
    IN  IF u \in {bookings[b].renterId, bookings[b].ownerId}
          THEN /\ ret.response.statusCode = 200
               /\ ret.response.booking = Value(fromPrisma(b, bookings[b]))
          ELSE /\ ret.response = getBookingById(bookings, Len(bookings) + 1, u)
               /\ ret.response = getBookingById(<<>>, b, u)
               /\ ret.response.statusCode = 404

\* Somebody else has just asked for an existing booking and was told it is
\* not there.
C21_Witness ==
  /\ ret.call.op = "getBookingById" /\ ret.call.id \in RowIds
  /\ ret.call.userId \notin {bookings[ret.call.id].renterId, bookings[ret.call.id].ownerId}
  /\ ret.res = "NotFoundException"

PaymentErrors == {"NotFoundException", "BadRequestException"}

\* C22: a createPayment call is refused, and nothing changes, unless the
\* caller is the booking's renter, the booking is CONFIRMED and has no
\* payment when the call checks; a payment row appears only when a
\* createPayment returns success, and is then a PENDING payment of the caller
\* for that booking; and no booking ever has two payments.
C22_OnePendingPaymentPerConfirmedBooking ==
  /\ [](\A b \in RowIds : Cardinality(PaymentsOf(b)) <= 1)
  /\ [][ /\ \A u \in Users, b \in 1 .. MaxBookings + 1, m \in PaymentMethods :
              createPaymentCall(u, b, m) =>
                IF /\ b \in RowIds
                   /\ bookings[b].renterId = u
                   /\ bookings[b].status = "CONFIRMED"
                   /\ PaymentsOf(b) = {}
                  THEN ret' = NoRet
                  ELSE /\ ret'.res \in PaymentErrors
                       /\ inflight' = inflight
         /\ Len(payments') # Len(payments) =>
              /\ ret'.call.op = "createPayment" /\ ret'.res = "ok"
              /\ payments' = Append(payments, payments'[Len(payments')])
              /\ LET row == payments'[Len(payments')]
                 IN  /\ row.status = "PENDING"
                     /\ row.bookingId = ret'.call.id
                     /\ row.payerId = ret'.call.userId
                     /\ row.payerId = bookings[row.bookingId].renterId
         /\ ret'.call.op = "createPayment" /\ ret'.res = "ok" =>
              Len(payments') = Len(payments) + 1 ]_vars

\* Two calls for one booking passed the checks; one has paid and the other
\* has just failed on the unique index.
C22_Witness ==
  /\ ret.call.op = "createPayment" /\ ret.res = "UniqueConstraintViolation"
  /\ Cardinality(PaymentsOf(ret.call.id)) = 1
  /\ payments[CHOOSE i \in PaymentsOf(ret.call.id) : TRUE].status = "PENDING"

\* C23: every payment has amount = totalPrice + deposit of its booking,
\* platformFee = amount * 0.15 and ownerAmount = amount - platformFee, the
\* fee and the owner's amount add up to the amount, and the receiver is the
\* booking's owner.
C23_FeeSplitAddsUp ==
  \A i \in PaymentIds :
    LET row == payments[i]
        booking == bookings[row.bookingId]
    IN  /\ row.amount = Plus(booking.totalPrice, booking.deposit)
        /\ row.platformFee = TimesD(row.amount, PLATFORM_FEE_RATE)
        /\ row.ownerAmount = Minus(row.amount, row.platformFee)
        /\ Plus(row.platformFee, row.ownerAmount) = row.amount
        /\ row.receiverId = booking.ownerId

\* A non-admin's updateVehicle has just changed the status of vehicle v.
OwnerMoved(v) ==
  /\ ret'.call.op = "updateVehicle" /\ ret'.res = "ok"
  /\ ret'.call.userRole # "ADMIN"
  /\ ret'.call.id = v
  /\ vehicles'[v].status # vehicles[v].status

\* The non-admin owner's updateVehicle call of vehicle v with status
\* `target` is refused and changes nothing.
OwnerRefused(v, target) ==
  \A role \in UserRoles \ {"ADMIN"} :
    updateVehicleCall(v, vehicles[v].ownerId, role, [status |-> Value(target)])
    => /\ ret'.res = "BadRequestException"
       /\ inflight' = inflight
       /\ vehicles' = vehicles

RefusedAsStated(v, target) ==
  \/ target \notin allowedOwnerStatuses
  \/ vehicles[v].status \in restrictedStatuses

RefusedByCode(v, target) ==
  \/ RefusedAsStated(v, target)
  \/ vehicles[v].status = "RENTED" /\ target = "AVAILABLE"

C26_TripsAreNeverDeleted ==
  \A b \in started :
    \E t \in TripRowIds :
      /\ trips[t].bookingId = b
      /\ trips[t].status \in {"ONGOING", "COMPLETED"}

\* C25: a reportIssue call is refused, and nothing changes, unless the
\* caller is the trip's renter and the trip is ONGOING when the call reads
\* it; a reportIssue that returns success has set hasIssues and stored the
\* description, and has left the trip's other fields, the bookings and the
\* vehicles as they were.
C25_ReportIssueOnlyMarksOngoingTrip ==
  [][ /\ \A u \in Users, t \in TripIds, i \in Issues :
           reportIssueCall(u, t, i) =>
             IF /\ t \in TripRowIds
                /\ trips[t].renterId = u
                /\ trips[t].status = "ONGOING"
               THEN ret' = NoRet /\ StoreUnchanged
               ELSE /\ ret'.res \in {"NotFoundException", "BadRequestException"}
                    /\ inflight' = inflight
                    /\ StoreUnchanged
      /\ ret'.call.op = "reportIssue" /\ ret'.res = "ok" =>
           /\ trips' = [trips EXCEPT
                          ![ret'.call.id].hasIssues = TRUE,
                          ![ret'.call.id].issueDescription =
                             ret'.call.dto.issueDescription]
           /\ trips'[ret'.call.id].hasIssues
           /\ trips'[ret'.call.id].issueDescription \in {Value(i) : i \in Issues}
           /\ trips'[ret'.call.id].status = trips[ret'.call.id].status
           /\ trips'[ret'.call.id].renterId = ret'.call.userId
           /\ bookings' = bookings
           /\ vehicles' = vehicles ]_vars

\* The renter has just reported an issue on the ongoing trip.
C25_Witness ==
  /\ ret.call.op = "reportIssue" /\ ret.res = "ok"
  /\ trips[ret.call.id].hasIssues
  /\ trips[ret.call.id].issueDescription = ret.call.dto.issueDescription
  /\ trips[ret.call.id].status = "ONGOING"
  /\ bookings[trips[ret.call.id].bookingId].status = "ONGOING"

\* C29: an endTrip call by the renter of a trip that is ONGOING is never
\* refused, whatever the coordinates startTrip stored; and an endTrip that
\* returns success leaves the trip and its booking COMPLETED.
C29_OngoingTripCanBeEnded ==
  [][ /\ \A u \in Users, t \in TripIds, dto \in EndTripDtos :
           /\ endTripCall(u, t, dto)
           /\ t \in TripRowIds
           /\ trips[t].renterId = u
           /\ trips[t].status = "ONGOING"
           => ret' = NoRet
      /\ ret'.call.op = "endTrip" /\ ret'.res = "ok" =>
           /\ trips'[ret'.call.id].status = "COMPLETED"
           /\ bookings'[trips'[ret'.call.id].bookingId].status = "COMPLETED" ]_vars

\* C30: a trip that is ONGOING with hasIssues set (reportIssue is the one
\* writer that sets the flag and leaves the trip ONGOING) keeps the flag.
C30_ReportedIssueIsKept ==
  [][ \A t \in TripRowIds :
        trips[t].hasIssues /\ trips[t].status = "ONGOING" => trips'[t].hasIssues ]_vars

\* C27: when the calls run one at a time, no two CONFIRMED or ONGOING
\* bookings of one vehicle have windows that overlap: of any two, one ends
\* no later than the other starts.
C27_SerialNoConfirmedOverlap ==
  \A i \in RowIds, j \in RowIds :
    /\ i # j
    /\ bookings[i].vehicleId = bookings[j].vehicleId
    /\ bookings[i].status \in ConfirmedStatuses
    /\ bookings[j].status \in ConfirmedStatuses
    => \/ bookings[i].endTime <= bookings[j].startTime
       \/ bookings[j].endTime <= bookings[i].startTime

\* An approval has just succeeded next to another CONFIRMED or ONGOING
\* booking of the vehicle.
C27_Witness ==
  /\ ret.call.op = "approveBooking" /\ ret.res = "ok"
  /\ bookings[ret.call.id].status = "CONFIRMED"
  /\ \E j \in RowIds \ {ret.call.id} :
       /\ bookings[j].vehicleId = bookings[ret.call.id].vehicleId
       /\ bookings[j].status \in ConfirmedStatuses

\* C28: a user is online exactly when one of the user's sockets is connected
\* and authenticated; every socket id in the registry is of a connected socket
\* and no user has an empty set.
C28_RegistryTracksConnectedSockets ==
  /\ \A u \in Users :
       isUserOnline(u) <=>
         \E id \in DOMAIN clients :
           clients[id].connected /\ clients[id].userId = Value(u)
  /\ \A u \in DOMAIN userSockets :
       /\ userSockets[u] # {}
       /\ \A id \in userSockets[u] : id \in DOMAIN clients /\ clients[id].connected
====
